---- MODULE Spec2Model ----
(***************************************************************************)
(* Order-flow trackers of Trade_Flow_BybitAPI.                             *)
(*                                                                         *)
(* Two trackers of the repository are modelled.  Each is a class named     *)
(* OrderFlowTracker whose websocket callbacks (handle_trade_message,       *)
(* handle_bbo_message, handle_kline_message) are the operations:           *)
(*   OrderF_HAFlags.py  Heikin-Ashi recurrence, windowed metrics and the   *)
(*                      streak / cooldown / consolidation-watch detector   *)
(*   trade_exhaust2.py  cumulative volume delta with a bounded history     *)
(* The variable `script` says which of the two was started; the fields     *)
(* that both classes have (trade_buffer, last_kline_start_time) share a    *)
(* variable, a field a class does not have keeps its initial value.        *)
(*                                                                         *)
(* Two scripts without a class are modelled by their module globals:       *)
(*   order_1minStats.py the one-minute summary of the top of book, a deque *)
(*                      filled by the websocket thread under data_lock and *)
(*                      drained by the main thread                         *)
(*   heinki_ashi.py     the live chart: a queue of kline events, the frame *)
(*                      of raw candles and the batch Heikin-Ashi transform *)
(*                                                                         *)
(* A callback is one step where the callbacks run one after the other.     *)
(* Where they run on threads of their own (Overlap, OverlapCvd) the kline  *)
(* callback is split at its statements and the position of each thread is  *)
(* part of the state.  An exception ends a callback at the statement that  *)
(* raised it (Faulty).                                                     *)
(*                                                                         *)
(* Numbers.  Python floats are modelled exactly: prices, sizes and volumes *)
(* are small integers, sums and quotients are rationals [n, d] in lowest   *)
(* terms, and round(x, k) gives an integer count of 10^-k units.  The      *)
(* thresholds 0.55 and 0.35 are compared with round(x, 4) and are          *)
(* therefore counted in 10^-4 units as well.                               *)
(***************************************************************************)
EXTENDS Integers, Sequences, FiniteSets, TLC

VARIABLES
  script,                         \* which script's tracker this is
  keep_locals,                    \* whether a run keeps the locals below
  trade_buffer,                   \* self.trade_buffer
  bbo_buffer,                     \* self.bbo_buffer
  last_kline_start_time,          \* self.last_kline_start_time
  last_ha_open,                   \* self.last_ha_open
  last_ha_close,                  \* self.last_ha_close
  ha_green_streak,                \* self.ha_green_streak
  consolidation_watch_countdown,  \* self.consolidation_watch_countdown
  alert_cooldown,                 \* self.alert_cooldown
  last_candle_data,               \* self.last_candle_data
  cumulative_volume_delta,        \* self.cumulative_volume_delta
  cvd_history,                    \* self.cvd_history
  records_logged,                 \* logging.info(record): records per start
  strict_alerts,                  \* logging.warning: Strict '3+1' lines
  watch_alerts,                   \* logging.warning: 'Consolidation Watch' lines
  candles_since_alert,            \* processed candles since the last alert
  delivered,                      \* the callback the websocket ran last
  entry_call,                     \* last direct call of _check_entry_conditions
  relevant_trades,                \* local of the last process_candle_data
  relevant_bbo_updates,           \* local of the last process_candle_data
  candle_history,                 \* raw candles the HA recurrence was given
  cvd_output,                     \* logging.info(output) of trade_exhaust2
  kline_pc,                       \* where the kline callback's thread stands
  kline_candle,                   \* the candle that thread is processing
  new_trade_buffer,               \* the rebuilt buffer before it is assigned
  trade_data_lock,                \* holder of self.trade_data_lock
  bbo_data_lock,                  \* holder of self.bbo_data_lock
  trade_pending,                  \* trades the trade callback still appends
  bbo_pending,                    \* update the bbo callback is about to append
  bbo_updates,                    \* order_1minStats: the global deque
  data_lock,                      \* order_1minStats: holder of data_lock
  last_bid_price,                 \* order_1minStats: global
  last_ask_price,                 \* order_1minStats: global
  stats_pending,                  \* order_1minStats: update about to be appended
  clock,                          \* order_1minStats: time.time()
  report_pc,                      \* where process_and_report stands
  report_period,                  \* its period_start_ts and period_end_ts
  updates_to_process,             \* its local list
  drained_from,                   \* the deque as it was when the lock was taken
  data_queue,                     \* heinki_ashi: the global queue
  historical_df,                  \* heinki_ashi: the global frame, row by row
  latest_candle,                  \* last data process_queue_data read per start
  ha_full_df                      \* heinki_ashi: result of the batch transform

\* the module globals and thread positions of the scripts without a class
stats == << bbo_updates, data_lock, last_bid_price, last_ask_price,
            stats_pending, clock, report_pc, report_period,
            updates_to_process, drained_from >>
chart == << data_queue, historical_df, latest_candle, ha_full_df >>
globals == << stats, chart >>

vars == << script, keep_locals, globals,
           trade_buffer, bbo_buffer, last_kline_start_time,
           last_ha_open, last_ha_close, ha_green_streak,
           consolidation_watch_countdown, alert_cooldown, last_candle_data,
           cumulative_volume_delta, cvd_history, records_logged,
           strict_alerts, watch_alerts, candles_since_alert, delivered,
           entry_call, relevant_trades, relevant_bbo_updates, candle_history,
           cvd_output, kline_pc, kline_candle, new_trade_buffer,
           trade_data_lock, bbo_data_lock, trade_pending, bbo_pending >>

\* the tracker's own fields (what the code can change)
tracker == << trade_buffer, bbo_buffer, last_kline_start_time,
              last_ha_open, last_ha_close, ha_green_streak,
              consolidation_watch_countdown, alert_cooldown, last_candle_data,
              cumulative_volume_delta, cvd_history >>

\* what the tracker has written to the log
logged == << records_logged, strict_alerts, watch_alerts >>

\* what the last run of process_candle_data left behind for inspection
observed == << relevant_trades, relevant_bbo_updates, candle_history,
               cvd_output >>

\* the threads of the callbacks, for the runs in which callbacks overlap
threads == << kline_pc, kline_candle, new_trade_buffer, trade_data_lock,
              bbo_data_lock, trade_pending, bbo_pending >>

-----------------------------------------------------------------------------
(* Program constants *)

GREEN_ZONE_THRESHOLD == 5500
RED_ZONE_THRESHOLD == 3500
CONSOLIDATION_WATCH_PERIOD == 3
ALERT_COOLDOWN_PERIOD == 5

(* Bounds of the model *)

MaxCandles == 9       \* confirmed candle boundaries of the in-order feed
MaxBuffered == 1      \* events a producer may leave in a buffer
Interval == 2         \* candle length: end = start + Interval - 1
MaxStart == 2         \* candle boundaries of the unordered feed
MaxProcessed == 3     \* candles processed under the unordered feed
CvdPeriod == 2        \* cvd_zscore_period of the modelled CVD tracker
MaxPrice == 2         \* close prices of the records given to the entry check
MaxWindowEvents == 3  \* events buffered when the candle of the window closes
MaxFaultyCandles == 4 \* candle boundaries of the feed with malformed events
MaxOverlapCandles == 1  \* candle boundaries of the feed with overlapping callbacks
MaxOverlapBuffered == 2 \* trades buffered or being appended in that feed
MaxPreciseCandles == 5  \* candle boundaries of the feed of near-threshold trades
MaxPreciseTrades == 2   \* trades buffered in that feed
MaxHaCandles == 5       \* candle boundaries of the feed of the three shapes
Minute == 2             \* ticks of the clock of order_1minStats in a minute
MaxMinutes == 2         \* minutes the clock of order_1minStats runs
MaxStatsBuffered == 3   \* updates in the deque of order_1minStats
MaxChartCandles == 3    \* candle boundaries of the feed of heinki_ashi
MaxQueued == 2          \* kline events waiting in the queue of heinki_ashi
MaxAgreeCandles == 4    \* candles of the sequences given to both HA computations

-----------------------------------------------------------------------------
(* Optional values: None is the empty tuple, a present value a 1-tuple *)

None == << >>
Some(x) == << x >>

(* Exact arithmetic for the float expressions of the code *)

Abs(x) == IF x < 0 THEN -x ELSE x

RECURSIVE Gcd(_, _)
Gcd(a, b) == IF b = 0 THEN a ELSE Gcd(b, a % b)

Rat(n, d) ==
  LET g == Gcd(Abs(n), d)
  IN  [n |-> n \div g, d |-> d \div g]

RatAdd(x, y) == Rat(x.n * y.d + y.n * x.d, x.d * y.d)
RatDiv(x, k) == Rat(x.n, x.d * k)
RatLess(x, y) == x.n * y.d < y.n * x.d

\* round(x, k) with scale = 10^k: nearest integer count, ties to even
Round(x, scale) ==
  LET p == x.n * scale
      q == p \div x.d
      r == p % x.d
  IN  IF 2 * r < x.d THEN q
      ELSE IF 2 * r > x.d THEN q + 1
      ELSE IF q % 2 = 0 THEN q ELSE q + 1

RECURSIVE SumInts(_)
SumInts(s) == IF s = << >> THEN 0 ELSE Head(s) + SumInts(Tail(s))

RECURSIVE RatSum(_)
RatSum(s) == IF s = << >> THEN Rat(0, 1) ELSE RatAdd(Head(s), RatSum(Tail(s)))

\* statistics.mean of a non-empty list
Mean(s) == RatDiv(RatSum(s), Len(s))

-----------------------------------------------------------------------------
(* OrderF_HAFlags.py: the setup detector *)

\* variant: the price-agreement branch vetoes the entry
check_entry_conditions_price_veto(current_data, last) ==
  IF current_data.HA_color # "Green" THEN FALSE
  ELSE IF current_data.agg_ratio < RED_ZONE_THRESHOLD
          \/ current_data.avg_bbo_imba < RED_ZONE_THRESHOLD THEN FALSE
  ELSE IF current_data.agg_ratio < GREEN_ZONE_THRESHOLD
          /\ current_data.avg_bbo_imba < GREEN_ZONE_THRESHOLD THEN FALSE
  ELSE IF last # None /\ current_data.close_price < last[1].close_price
       THEN FALSE
  ELSE TRUE

\* _check_entry_conditions(self, current_data); last is self.last_candle_data
check_entry_conditions(current_data, last) ==
  IF current_data.HA_color # "Green" THEN FALSE
  ELSE IF current_data.agg_ratio < RED_ZONE_THRESHOLD
          \/ current_data.avg_bbo_imba < RED_ZONE_THRESHOLD THEN FALSE
  ELSE IF current_data.agg_ratio < GREEN_ZONE_THRESHOLD
          /\ current_data.avg_bbo_imba < GREEN_ZONE_THRESHOLD THEN FALSE
  ELSE IF last # None /\ current_data.close_price < last[1].close_price
       THEN TRUE   \* the price-agreement branch is `pass`
  ELSE TRUE

\* variant: the cooldown timer is never decremented
decrement_cooldown_stuck(cooldown) == cooldown

\* step 1: decrement the cooldown timer
decrement_cooldown(cooldown) ==
  IF cooldown > 0 THEN cooldown - 1 ELSE cooldown

\* variant: a trend break resets the streak but leaves the watch pending
update_streak_keep_watch(color, streak, watch) ==
  IF color = "Green"
  THEN [streak |-> streak + 1, watch |-> watch]
  ELSE [streak |-> 0, watch |-> watch]

\* step 2: update the Heiken Ashi streak; a trend break resets the watch too
update_streak(color, streak, watch) ==
  IF color = "Green"
  THEN [streak |-> streak + 1, watch |-> watch]
  ELSE [streak |-> 0, watch |-> 0]

\* the gate after step 2: no detection while a recent alert is cooling down
cooling_down(cooldown) == cooldown > 0

\* variant: the strict entry fires without starting the cooldown
strict_check_no_cooldown(entry, s) ==
  IF entry
  THEN [s EXCEPT !.watch = 0, !.alerts = Append(@, "Strict")]
  ELSE [s EXCEPT !.watch = CONSOLIDATION_WATCH_PERIOD]

\* variant: a failed strict check does not start the consolidation watch
strict_check_no_watch(entry, s) ==
  IF entry
  THEN [s EXCEPT !.cooldown = ALERT_COOLDOWN_PERIOD, !.watch = 0,
                 !.alerts = Append(@, "Strict")]
  ELSE s

\* variant: a failed strict check starts a watch of one candle more
strict_check_long_watch(entry, s) ==
  IF entry
  THEN [s EXCEPT !.cooldown = ALERT_COOLDOWN_PERIOD, !.watch = 0,
                 !.alerts = Append(@, "Strict")]
  ELSE [s EXCEPT !.watch = CONSOLIDATION_WATCH_PERIOD + 1]

\* "Strict 3+1" protocol, reached when the streak is 4
strict_check(entry, s) ==
  IF entry
  THEN [s EXCEPT !.cooldown = ALERT_COOLDOWN_PERIOD, !.watch = 0,
                 !.alerts = Append(@, "Strict")]
  ELSE [s EXCEPT !.watch = CONSOLIDATION_WATCH_PERIOD]

\* variant: a failed re-check leaves the watch countdown as it is
watch_check_no_decrement(entry, s) ==
  IF entry
  THEN [s EXCEPT !.cooldown = ALERT_COOLDOWN_PERIOD, !.watch = 0,
                 !.alerts = Append(@, "Watch")]
  ELSE s

\* variant: the watch entry fires without resetting the watch countdown
watch_check_keeps_watch(entry, s) ==
  IF entry
  THEN [s EXCEPT !.cooldown = ALERT_COOLDOWN_PERIOD,
                 !.alerts = Append(@, "Watch")]
  ELSE [s EXCEPT !.watch = @ - 1]

\* variant: a failed re-check starts the watch period again
watch_check_restarts(entry, s) ==
  IF entry
  THEN [s EXCEPT !.cooldown = ALERT_COOLDOWN_PERIOD, !.watch = 0,
                 !.alerts = Append(@, "Watch")]
  ELSE [s EXCEPT !.watch = CONSOLIDATION_WATCH_PERIOD]

\* "Consolidation Watch" protocol, reached when a watch is pending
watch_check(entry, s) ==
  IF entry
  THEN [s EXCEPT !.cooldown = ALERT_COOLDOWN_PERIOD, !.watch = 0,
                 !.alerts = Append(@, "Watch")]
  ELSE [s EXCEPT !.watch = @ - 1]

\* variant: the strict check is made at every streak from 4 on
run_trade_setup_logic_from_four(current_data, last, streak, watch, cooldown) ==
  LET cd  == decrement_cooldown(cooldown)
      upd == update_streak(current_data.HA_color, streak, watch)
      s   == [streak |-> upd.streak, watch |-> upd.watch, cooldown |-> cd,
              alerts |-> << >>]
  IN  IF cooling_down(cd) THEN s
      ELSE IF s.streak >= 4
           THEN strict_check(check_entry_conditions(current_data, last), s)
      ELSE IF s.watch > 0
           THEN watch_check(check_entry_conditions(current_data, last), s)
      ELSE s

\* _run_trade_setup_logic(self, current_data): the counters after the call
\* and the alerts it logged
run_trade_setup_logic(current_data, last, streak, watch, cooldown) ==
  LET cd  == decrement_cooldown(cooldown)
      upd == update_streak(current_data.HA_color, streak, watch)
      s   == [streak |-> upd.streak, watch |-> upd.watch, cooldown |-> cd,
              alerts |-> << >>]
  IN  IF cooling_down(cd) THEN s
      ELSE IF s.streak = 4
           THEN strict_check(check_entry_conditions(current_data, last), s)
      ELSE IF s.watch > 0
           THEN watch_check(check_entry_conditions(current_data, last), s)
      ELSE s

-----------------------------------------------------------------------------
(* OrderF_HAFlags.py: process_candle_data *)

\* float(candle['open']) etc.: the feed's numeric fields are whole numbers
Float(x) == Rat(x, 1)

\* variant: the buffered trades leak into the HA close
ha_close_of_with_trades(candle) ==
  RatDiv(Float(candle.open + candle.high + candle.low + candle.close
               + Len(trade_buffer)), 4)

\* ha_close = (open + high + low + close) / 4.0
ha_close_of(candle) ==
  RatDiv(Float(candle.open + candle.high + candle.low + candle.close), 4)

\* ha_open: first candle initialisation, else the recurrence
ha_open_of(candle, prev_open, prev_close) ==
  IF prev_open = None
  THEN RatDiv(Float(candle.open + candle.close), 2)
  ELSE RatDiv(RatAdd(prev_open[1], prev_close[1]), 2)

\* variant: a candle with ha_close = ha_open counts as Green
ha_color_of_tie_green(ha_open, ha_close) ==
  IF RatLess(ha_close, ha_open) THEN "Red" ELSE "Green"

\* ha_color = "Green" if ha_close > ha_open else "Red"
ha_color_of(ha_open, ha_close) ==
  IF RatLess(ha_open, ha_close) THEN "Green" ELSE "Red"

\* strftime('%Y-%m-%d %H:%M:%S,') + milliseconds of utcfromtimestamp(ms/1000):
\* whole seconds and the millisecond part of the candle start
formatted_timestamp(candle_start_ms) ==
  << candle_start_ms \div 1000, candle_start_ms % 1000 >>

\* variant: the end of the window is excluded
InWindowT_end_excluded(t, lo, hi) == lo <= t.T /\ t.T < hi

\* variant: the window has no lower end
InWindowT_no_start(t, lo, hi) == t.T <= hi

\* the drains under trade_data_lock / bbo_data_lock
InWindowT(t, lo, hi) == lo <= t.T /\ t.T <= hi
InWindowB(b, lo, hi) == lo <= b.ts /\ b.ts <= hi

relevant_trades_of(buf, lo, hi) ==
  LET Test(t) == InWindowT(t, lo, hi) IN SelectSeq(buf, Test)
remaining_trades_of(buf, hi) ==
  LET Test(t) == t.T > hi IN SelectSeq(buf, Test)
relevant_bbo_of(buf, lo, hi) ==
  LET Test(b) == InWindowB(b, lo, hi) IN SelectSeq(buf, Test)
remaining_bbo_of(buf, hi) ==
  LET Test(b) == b.ts > hi IN SelectSeq(buf, Test)

RECURSIVE side_volume(_, _)
\* sum(float(t['v']) for t in relevant_trades if t['S'] == side)
side_volume(trades, side) ==
  IF trades = << >> THEN 0
  ELSE (IF Head(trades).S = side THEN Head(trades).v ELSE 0)
       + side_volume(Tail(trades), side)

\* variant: a window without volume counts as all selling
agg_ratio_of_zero_default(buy_volume, sell_volume) ==
  IF buy_volume + sell_volume > 0
  THEN Rat(buy_volume, buy_volume + sell_volume)
  ELSE Rat(0, 1)

\* agg_ratio before rounding
agg_ratio_of(buy_volume, sell_volume) ==
  IF buy_volume + sell_volume > 0
  THEN Rat(buy_volume, buy_volume + sell_volume)
  ELSE Rat(1, 2)

\* avg_bbo_imba before rounding
avg_bbo_imba_of(updates) ==
  IF updates # << >>
  THEN Mean([i \in 1..Len(updates) |-> updates[i].imbalance])
  ELSE Rat(1, 2)

\* output_data
output_data_of(candle, ha_open, ha_close, trades, updates) ==
  [ utc          |-> formatted_timestamp(candle.start),
    close_price  |-> candle.close,
    HA_open      |-> Round(ha_open, 100000),
    HA_close     |-> Round(ha_close, 100000),
    HA_color     |-> ha_color_of(ha_open, ha_close),
    agg_ratio    |-> Round(agg_ratio_of(side_volume(trades, "Buy"),
                                        side_volume(trades, "Sell")), 10000),
    avg_bbo_imba |-> Round(avg_bbo_imba_of(updates), 10000) ]

-----------------------------------------------------------------------------
(* State after construction *)

Scripts == {"OrderF_HAFlags", "trade_exhaust2"}

Max(a, b) == IF a > b THEN a ELSE b

\* candle boundaries the feeds can name: start = k * Interval
Starts == {k * Interval : k \in 1..(Max(MaxCandles, MaxStart) + 1)}

\* OrderFlowTracker.__init__ of either script
TrackerInit ==
  /\ trade_buffer = << >>
  /\ bbo_buffer = << >>
  /\ last_kline_start_time = None
  /\ last_ha_open = None
  /\ last_ha_close = None
  /\ ha_green_streak = 0
  /\ consolidation_watch_countdown = 0
  /\ alert_cooldown = 0
  /\ last_candle_data = None
  /\ cumulative_volume_delta = 0
  /\ cvd_history = << >>
  /\ records_logged = [s \in Starts |-> 0]
  /\ strict_alerts = 0
  /\ watch_alerts = 0
  /\ candles_since_alert = None
  /\ delivered = None
  /\ relevant_trades = << >>
  /\ relevant_bbo_updates = << >>
  /\ candle_history = << >>
  /\ cvd_output = None
  /\ kline_pc = "idle"
  /\ kline_candle = None
  /\ new_trade_buffer = None
  /\ trade_data_lock = "free"
  /\ bbo_data_lock = "free"
  /\ trade_pending = None
  /\ bbo_pending = None

\* the module globals of order_1minStats.py at import
StatsInit ==
  /\ bbo_updates = << >>
  /\ data_lock = "free"
  /\ last_bid_price = 0
  /\ last_ask_price = 0
  /\ stats_pending = None
  /\ clock = 0
  /\ report_pc = "idle"
  /\ report_period = None
  /\ updates_to_process = << >>
  /\ drained_from = << >>

\* the module globals of heinki_ashi.py at import
ChartInit ==
  /\ data_queue = << >>
  /\ historical_df = << >>
  /\ latest_candle = [s \in Starts |-> None]
  /\ ha_full_df = None

GlobalsInit == StatsInit /\ ChartInit

-----------------------------------------------------------------------------
(* OrderF_HAFlags.py: the websocket callbacks *)

\* how many of the logged alert lines are of one kind
CountKind(alerts, kind) == Cardinality({i \in 1..Len(alerts) : alerts[i] = kind})

\* processed candles since the last alert, counted up to one past the cooldown
since_alert_after(alerts, since) ==
  IF alerts # << >> THEN Some(0)
  ELSE IF since = None THEN None
  ELSE IF since[1] > ALERT_COOLDOWN_PERIOD THEN since
  ELSE Some(since[1] + 1)

\* a field value that int() and float() reject (absent or not numeric)
Malformed == 0 - 1

\* the statement of process_candle_data that raises, if one does
raise_point(candle, buffer) ==
  IF \E f \in {"open", "high", "low", "close"} : candle[f] = Malformed
  THEN "candle"                       \* float(candle[...]), lines 124-127
  ELSE IF \E i \in 1..Len(buffer) : buffer[i].T = Malformed
  THEN "drain"                        \* int(t['T']), line 147
  ELSE IF \E i \in 1..Len(buffer) :
            /\ InWindowT(buffer[i], candle.start, candle.end)
            /\ buffer[i].S \in {"Buy", "Sell"}
            /\ buffer[i].v = Malformed
  THEN "volume"                       \* float(t['v']), lines 153-154
  ELSE "none"

\* the raw prices of a candle
ohlc_of(candle) ==
  [open |-> candle.open, high |-> candle.high, low |-> candle.low,
   close |-> candle.close]

\* lines 123-143: the HA values of the candle become the HA state
store_ha(candle) ==
  /\ last_ha_open' = Some(ha_open_of(candle, last_ha_open, last_ha_close))
  /\ last_ha_close' = Some(ha_close_of(candle))
  /\ candle_history' = Append(candle_history, ohlc_of(candle))

\* a local list after the call has returned: kept for inspection in the
\* runs that look at it, gone with the frame in the others
kept_local(list) == IF keep_locals THEN list ELSE << >>

\* lines 146-148: the trade buffer is drained under trade_data_lock
drain_trades(candle) ==
  /\ relevant_trades' =
       kept_local(relevant_trades_of(trade_buffer, candle.start, candle.end))
  /\ trade_buffer' = remaining_trades_of(trade_buffer, candle.end)

\* lines 149-151: the bbo buffer is drained under bbo_data_lock
drain_bbo(candle) ==
  /\ relevant_bbo_updates' =
       kept_local(relevant_bbo_of(bbo_buffer, candle.start, candle.end))
  /\ bbo_buffer' = remaining_bbo_of(bbo_buffer, candle.end)

\* lines 153-176: metrics, the logged record, the setup logic
finish_candle(candle, ha_open, ha_close, trades, updates) ==
  \E output_data \in
       {output_data_of(candle, ha_open, ha_close, trades, updates)} :
  \E setup \in
       {run_trade_setup_logic(output_data, last_candle_data,
          ha_green_streak, consolidation_watch_countdown,
          alert_cooldown)} :
    /\ records_logged' = [records_logged EXCEPT ![candle.start] = @ + 1]
    /\ ha_green_streak' = setup.streak
    /\ consolidation_watch_countdown' = setup.watch
    /\ alert_cooldown' = setup.cooldown
    /\ strict_alerts' = strict_alerts + CountKind(setup.alerts, "Strict")
    /\ watch_alerts' = watch_alerts + CountKind(setup.alerts, "Watch")
    /\ candles_since_alert' =
         since_alert_after(setup.alerts, candles_since_alert)
    /\ last_candle_data' = Some(output_data)

\* process_candle_data(self, candle); an exception leaves the function at
\* the statement that raised it, with the assignments made until then
process_candle_data(candle) ==
  \E at \in {raise_point(candle, trade_buffer)} :
    /\ IF at = "candle"
       THEN UNCHANGED << last_ha_open, last_ha_close, candle_history >>
       ELSE store_ha(candle)
    /\ IF at \in {"candle", "drain"}
       THEN UNCHANGED << trade_buffer, bbo_buffer, relevant_trades,
                         relevant_bbo_updates >>
       ELSE drain_trades(candle) /\ drain_bbo(candle)
    /\ IF at # "none"
       THEN UNCHANGED << logged, ha_green_streak,
                         consolidation_watch_countdown, alert_cooldown,
                         candles_since_alert, last_candle_data >>
       ELSE finish_candle(candle,
              ha_open_of(candle, last_ha_open, last_ha_close),
              ha_close_of(candle),
              relevant_trades_of(trade_buffer, candle.start, candle.end),
              relevant_bbo_of(bbo_buffer, candle.start, candle.end))
    /\ UNCHANGED << cumulative_volume_delta, cvd_history, cvd_output >>

\* variant: every confirmed candle is processed, repeats included
is_new_confirmed_no_dedup(candle, last_start) == candle.confirm

\* variant: the confirm flag is not looked at
is_new_confirmed_any_flag(candle, last_start) ==
  last_start # Some(candle.start)

\* the dedup guard of handle_kline_message
is_new_confirmed(candle, last_start) ==
  candle.confirm /\ last_start # Some(candle.start)

\* handle_kline_message(self, message)
handle_kline_message(message) ==
  /\ script = "OrderF_HAFlags"
  /\ LET candle == message.data[1]
     IN  IF is_new_confirmed(candle, last_kline_start_time)
         THEN /\ last_kline_start_time' = Some(candle.start)
              /\ process_candle_data(candle)
         ELSE UNCHANGED << tracker, logged, candles_since_alert, observed >>
  /\ UNCHANGED << script, keep_locals, globals, threads >>

\* handle_trade_message(self, message)
handle_trade_message(message) ==
  /\ script = "OrderF_HAFlags"
  /\ trade_buffer' = trade_buffer \o message.data
  /\ UNCHANGED << script, keep_locals, globals,
                  bbo_buffer, last_kline_start_time, last_ha_open,
                  last_ha_close, ha_green_streak,
                  consolidation_watch_countdown, alert_cooldown,
                  last_candle_data, cumulative_volume_delta, cvd_history,
                  logged, candles_since_alert, observed, threads >>

\* imbalance of the top of book, 0.5 when both sizes are zero
imbalance_of(bid_size, ask_size) ==
  IF bid_size + ask_size > 0
  THEN Rat(bid_size, bid_size + ask_size)
  ELSE Rat(1, 2)

\* handle_bbo_message(self, message)
handle_bbo_message(message) ==
  /\ script = "OrderF_HAFlags"
  /\ LET bids == message.data.b
         asks == message.data.a
     IN  IF bids = << >> \/ asks = << >>
         THEN UNCHANGED bbo_buffer
         ELSE bbo_buffer' = Append(bbo_buffer,
                [ts |-> message.ts,
                 imbalance |-> imbalance_of(bids[1][2], asks[1][2])])
  /\ UNCHANGED << script, keep_locals, globals,
                  trade_buffer, last_kline_start_time, last_ha_open,
                  last_ha_close, ha_green_streak,
                  consolidation_watch_countdown, alert_cooldown,
                  last_candle_data, cumulative_volume_delta, cvd_history,
                  logged, candles_since_alert, observed, threads >>

-----------------------------------------------------------------------------
(* trade_exhaust2.py: the CVD tracker *)

\* variant: a full history refuses the new value
deque_append_keeps_oldest(history, x, period) ==
  IF Len(history) >= period THEN history ELSE Append(history, x)

\* collections.deque(maxlen=period).append(x)
deque_append(history, x, period) ==
  LET h == Append(history, x)
  IN  IF Len(h) > period THEN SubSeq(h, Len(h) - period + 1, Len(h)) ELSE h

\* variant: the delta of the candle replaces the running sum
next_cvd_assign(cumulative, volume_delta) == volume_delta

\* self.cumulative_volume_delta += volume_delta
next_cvd(cumulative, volume_delta) == cumulative + volume_delta

\* round(x, 4) of a volume
Round4(x) == Round(Float(x), 10000)

RatSub(x, y) == Rat(x.n * y.d - y.n * x.d, x.d * y.d)
RatMul(x, y) == Rat(x.n * y.n, x.d * y.d)

Sign(k) == IF k > 0 THEN 1 ELSE IF k < 0 THEN 0 - 1 ELSE 0

\* cvd_zscore_ratio = 0.0; the ratio is kept as its sign and its square,
\* which determine it, so that no square root has to be taken
zero_ratio == [raised |-> "none", sign |-> 0, square |-> Rat(0, 1)]

\* statistics.stdev(history) squared: the sample variance, which
\* statistics computes exactly; needs two values or more
sample_variance(history) ==
  LET n == Len(history)
      sum == SumInts(history)
      squares == SumInts([i \in 1..n |-> history[i] * history[i]])
  IN  Rat(n * squares - sum * sum, n * (n - 1))

\* (x - mean) / stdev; a float division by 0.0 raises ZeroDivisionError
divide_by_stdev(deviation, variance) ==
  IF variance.n = 0
  THEN [raised |-> "ZeroDivisionError", sign |-> 0, square |-> Rat(0, 1)]
  ELSE [raised |-> "none", sign |-> Sign(deviation.n),
        square |-> Rat(deviation.n * deviation.n * variance.d,
                       deviation.d * deviation.d * variance.n)]

\* variant: the quotient is taken whatever the deviation of the history
stdev_positive_unguarded(variance) == TRUE

\* if stdev_cvd > 0
stdev_positive(variance) == variance.n > 0

\* step 5: the z-score of the running sum against its own history
cvd_zscore_ratio_of(history, cvd) ==
  IF Len(history) > 1
  THEN LET mean_cvd == Mean([i \in 1..Len(history) |-> Float(history[i])])
           variance == sample_variance(history)
       IN  IF stdev_positive(variance)
           THEN divide_by_stdev(RatSub(Float(cvd), mean_cvd), variance)
           ELSE zero_ratio
  ELSE zero_ratio

\* the output dictionary: volumes, delta, agg_ratio, the running sum and
\* its z-score
output_of(trades, cvd, history) ==
  LET buy_volume  == side_volume(trades, "Buy")
      sell_volume == side_volume(trades, "Sell")
  IN  [ buy_volume   |-> Round4(buy_volume),
        sell_volume  |-> Round4(sell_volume),
        total_volume |-> Round4(buy_volume + sell_volume),
        delta        |-> Round4(buy_volume - sell_volume),
        agg_ratio    |-> Round(agg_ratio_of(buy_volume, sell_volume), 10000),
        cumulative_volume_delta |-> Round4(cvd),
        cvd_zscore_ratio |-> cvd_zscore_ratio_of(history, cvd) ]

\* lines 60-121 of trade_exhaust2.py: everything before the buffer clean-up
aggregate_cvd(candle) ==
  \E trades \in {relevant_trades_of(trade_buffer, candle.start, candle.end)} :
  \E cvd \in {next_cvd(cumulative_volume_delta,
                       side_volume(trades, "Buy")
                         - side_volume(trades, "Sell"))} :
      /\ relevant_trades' = kept_local(trades)
      /\ cumulative_volume_delta' = cvd
      /\ cvd_history' = deque_append(cvd_history, cvd, CvdPeriod)
      /\ cvd_output' =
           Some(output_of(trades, cvd,
                          deque_append(cvd_history, cvd, CvdPeriod)))
      /\ records_logged' = [records_logged EXCEPT ![candle.start] = @ + 1]

\* process_candle_data(self, candle) of trade_exhaust2.py
process_candle_data_cvd(candle) ==
  /\ aggregate_cvd(candle)
  /\ trade_buffer' = remaining_trades_of(trade_buffer, candle.end)
  /\ UNCHANGED << bbo_buffer, last_ha_open, last_ha_close, ha_green_streak,
                  consolidation_watch_countdown, alert_cooldown,
                  last_candle_data, strict_alerts, watch_alerts,
                  candles_since_alert, relevant_bbo_updates,
                  candle_history >>

\* handle_kline_message(self, message) of trade_exhaust2.py
handle_kline_message_cvd(message) ==
  /\ script = "trade_exhaust2"
  /\ IF message.data = << >>
     THEN UNCHANGED << tracker, logged, candles_since_alert, observed >>
     ELSE LET candle == message.data[1]
          IN  IF candle.confirm = TRUE
                 /\ last_kline_start_time # Some(candle.start)
              THEN /\ last_kline_start_time' = Some(candle.start)
                   /\ process_candle_data_cvd(candle)
              ELSE UNCHANGED << tracker, logged, candles_since_alert,
                                observed >>
  /\ UNCHANGED << script, keep_locals, globals, threads >>

\* handle_trade_message(self, message) of trade_exhaust2.py
handle_trade_message_cvd(message) ==
  /\ script = "trade_exhaust2"
  /\ trade_buffer' = trade_buffer \o message.data
  /\ UNCHANGED << script, keep_locals, globals,
                  bbo_buffer, last_kline_start_time, last_ha_open,
                  last_ha_close, ha_green_streak,
                  consolidation_watch_countdown, alert_cooldown,
                  last_candle_data, cumulative_volume_delta, cvd_history,
                  logged, candles_since_alert, observed, threads >>

-----------------------------------------------------------------------------
(* The feeds *)

\* OHLC of the candles the feeds deliver: a rising and a falling one
Rising  == [open |-> 2, high |-> 5, low |-> 2, close |-> 4]
Falling == [open |-> 4, high |-> 4, low |-> 1, close |-> 2]

Kline(start, shape, confirm) ==
  [data |-> << [start |-> start, end |-> start + Interval - 1,
                open |-> shape.open, high |-> shape.high, low |-> shape.low,
                close |-> shape.close, confirm |-> confirm] >>]

Trade(T, side, v) == [data |-> << [T |-> T, S |-> side, v |-> v] >>]

Bbo(ts, bid_size, ask_size) ==
  [ts |-> ts, data |-> [b |-> << <<10, bid_size>> >>,
                        a |-> << <<11, ask_size>> >>]]

\* what the websocket delivered: a kline event is a repeat when its start is
\* the start of the most recently processed candle; the delivery notes how
\* many trades were buffered when it arrived
KlineDelivery(start, confirm) ==
  Some([callback |-> "kline", confirm |-> confirm,
        repeat |-> (last_kline_start_time = Some(start)),
        trades |-> Len(trade_buffer)])

\* the boundary after the last processed one
next_start ==
  IF last_kline_start_time = None THEN Interval
  ELSE last_kline_start_time[1] + Interval

RECURSIVE SumFun(_, _)
SumFun(f, S) ==
  IF S = {} THEN 0
  ELSE LET x == CHOOSE y \in S : TRUE IN f[x] + SumFun(f, S \ {x})

\* records logged so far
total_records == SumFun(records_logged, Starts)

-----------------------------------------------------------------------------
(* Setup: the HA-flags tracker on an in-order feed of candle closes, with   *)
(* at most MaxBuffered trades and book updates in each candle's window     *)

InitSetup ==
  /\ script = "OrderF_HAFlags"
  /\ keep_locals = FALSE
  /\ TrackerInit
  /\ GlobalsInit
  /\ entry_call = None

SetupTrade ==
  /\ Len(trade_buffer) < MaxBuffered
  /\ next_start <= MaxCandles * Interval
  /\ \E side \in {"Buy", "Sell"} :
       handle_trade_message(Trade(next_start, side, 1))
  /\ delivered' = Some([callback |-> "trade"])
  /\ UNCHANGED entry_call

SetupBbo ==
  /\ Len(bbo_buffer) < MaxBuffered
  /\ next_start <= MaxCandles * Interval
  /\ handle_bbo_message(Bbo(next_start, 1, 0))
  /\ delivered' = Some([callback |-> "bbo"])
  /\ UNCHANGED entry_call

\* the next candle closes
SetupKline ==
  /\ next_start <= MaxCandles * Interval
  /\ \E shape \in {Rising, Falling} :
       handle_kline_message(Kline(next_start, shape, TRUE))
  /\ delivered' = KlineDelivery(next_start, TRUE)
  /\ UNCHANGED entry_call

NextSetup == SetupTrade \/ SetupBbo \/ SetupKline

SpecSetup == InitSetup /\ [][NextSetup]_vars

-----------------------------------------------------------------------------
(* Stream: either tracker on a feed that may deliver any boundary at any   *)
(* time, with trades and book updates of any timestamp                     *)

Init ==
  /\ script \in Scripts
  /\ keep_locals = TRUE
  /\ TrackerInit
  /\ GlobalsInit
  /\ entry_call = None

StreamStarts == {k * Interval : k \in 1..MaxStart}

\* the candle of a boundary is the same whenever it is delivered
CandleAt(start) ==
  IF (start \div Interval) % 2 = 1 THEN Rising ELSE Falling

\* trades come stamped with the first or the last boundary of the feed
StreamTimes == {Interval, MaxStart * Interval}

StreamTrade ==
  /\ Len(trade_buffer) < MaxBuffered
  /\ \E T \in StreamTimes, side \in {"Buy", "Sell"} :
       \/ handle_trade_message(Trade(T, side, 1))
       \/ handle_trade_message_cvd(Trade(T, side, 1))
  /\ delivered' = Some([callback |-> "trade"])
  /\ UNCHANGED entry_call

StreamBbo ==
  /\ Len(bbo_buffer) < MaxBuffered
  /\ handle_bbo_message(Bbo(Interval, 1, 0))
  /\ delivered' = Some([callback |-> "bbo"])
  /\ UNCHANGED entry_call

StreamKline ==
  /\ total_records < MaxProcessed
  /\ \E start \in StreamStarts, confirm \in BOOLEAN :
       /\ \/ handle_kline_message(Kline(start, CandleAt(start), confirm))
          \/ handle_kline_message_cvd(Kline(start, CandleAt(start), confirm))
       /\ delivered' = KlineDelivery(start, confirm)
  /\ UNCHANGED entry_call

Next == StreamTrade \/ StreamBbo \/ StreamKline

Spec == Init /\ [][Next]_vars

-----------------------------------------------------------------------------
(* Window: either tracker closes one candle over a buffer of any content:  *)
(* events older than the window, at its start, at its end and newer, buys, *)
(* sells and trades of no volume, book updates of either side              *)

WindowStart == 2 * Interval
WindowTimes == {WindowStart - 1, WindowStart, WindowStart + Interval - 1,
                WindowStart + Interval}
WindowVolumes == { <<"Buy", 1>>, <<"Sell", 1>>, <<"Buy", 0>> }
WindowSizes == { <<1, 0>>, <<0, 1>> }

WindowOpen ==
  /\ total_records = 0
  /\ Len(trade_buffer) + Len(bbo_buffer) < MaxWindowEvents

InitWindow ==
  /\ script \in Scripts
  /\ keep_locals = TRUE
  /\ TrackerInit
  /\ GlobalsInit
  /\ entry_call = None

WindowTrade ==
  /\ WindowOpen
  /\ \E T \in WindowTimes, sv \in WindowVolumes :
       \/ handle_trade_message(Trade(T, sv[1], sv[2]))
       \/ handle_trade_message_cvd(Trade(T, sv[1], sv[2]))
  /\ delivered' = Some([callback |-> "trade"])
  /\ UNCHANGED entry_call

WindowBbo ==
  /\ WindowOpen
  /\ \E ts \in WindowTimes, sizes \in WindowSizes :
       handle_bbo_message(Bbo(ts, sizes[1], sizes[2]))
  /\ delivered' = Some([callback |-> "bbo"])
  /\ UNCHANGED entry_call

\* the candle of the window closes; the delivery notes the buffer lengths
WindowKline ==
  /\ total_records = 0
  /\ \/ handle_kline_message(Kline(WindowStart, Rising, TRUE))
     \/ handle_kline_message_cvd(Kline(WindowStart, Rising, TRUE))
  /\ delivered' = Some([callback |-> "kline", confirm |-> TRUE,
                        repeat |-> FALSE, trades |-> Len(trade_buffer),
                        updates |-> Len(bbo_buffer)])
  /\ UNCHANGED entry_call

NextWindow == WindowTrade \/ WindowBbo \/ WindowKline

SpecWindow == InitWindow /\ [][NextWindow]_vars

-----------------------------------------------------------------------------
(* Faulty: the HA-flags tracker on an in-order feed in which a trade may   *)
(* lack a numeric 'T' or 'v' and a candle may lack a numeric 'open'.  An   *)
(* exception ends the callback; the websocket goes on delivering.          *)

InitFaulty ==
  /\ script = "OrderF_HAFlags"
  /\ keep_locals = FALSE
  /\ TrackerInit
  /\ GlobalsInit
  /\ entry_call = None

\* a well-formed trade of the coming window, or one with a field spoilt
FaultyTrades ==
  { [T |-> next_start, S |-> "Buy", v |-> 1],
    [T |-> Malformed,  S |-> "Buy", v |-> 1],
    [T |-> next_start, S |-> "Buy", v |-> Malformed] }

FaultyShapes == {Rising, Falling, [Rising EXCEPT !.open = Malformed]}

FaultyTrade ==
  /\ Len(trade_buffer) < MaxBuffered
  /\ next_start <= MaxFaultyCandles * Interval
  /\ \E trade \in FaultyTrades :
       handle_trade_message([data |-> << trade >>])
  /\ delivered' = Some([callback |-> "trade"])
  /\ UNCHANGED entry_call

\* the next candle closes; the delivery notes whether the callback raised
FaultyKline ==
  /\ next_start <= MaxFaultyCandles * Interval
  /\ \E shape \in FaultyShapes :
       /\ handle_kline_message(Kline(next_start, shape, TRUE))
       /\ delivered' =
            Some([callback |-> "kline", confirm |-> TRUE, repeat |-> FALSE,
                  well_formed |-> (shape.open # Malformed),
                  raised |-> raise_point(Kline(next_start, shape,
                                               TRUE).data[1],
                                         trade_buffer)])
  /\ UNCHANGED entry_call

NextFaulty == FaultyTrade \/ FaultyKline

SpecFaulty == InitFaulty /\ [][NextFaulty]_vars

-----------------------------------------------------------------------------
(* Overlap: the callbacks of the HA-flags tracker run on threads of their  *)
(* own and overlap statement by statement.  The kline thread walks through *)
(* process_candle_data, the trade thread through its loop of appends, and  *)
(* a `with lock:` block is entered only while the lock is free.            *)

\* fields the drains and the ingestion never touch
setup_state == << ha_green_streak, consolidation_watch_countdown,
                 alert_cooldown, last_candle_data, logged,
                 candles_since_alert >>
ha_state == << last_ha_open, last_ha_close, candle_history >>
cvd_state == << cumulative_volume_delta, cvd_history, cvd_output >>

\* variant: a with-block is entered whoever holds the lock
can_acquire_unguarded(holder) == TRUE

\* threading.Lock: a with-block is entered only when nobody holds the lock
can_acquire(holder) == holder = "free"

\* lines 244-143: the dedup guard, the HA values and the HA state
KlineBegin(candle) ==
  /\ script = "OrderF_HAFlags"
  /\ kline_pc = "idle"
  /\ is_new_confirmed(candle, last_kline_start_time)
  /\ last_kline_start_time' = Some(candle.start)
  /\ store_ha(candle)
  /\ kline_candle' = Some(candle)
  /\ kline_pc' = "trade_lock"
  /\ UNCHANGED << script, keep_locals, globals,
                  trade_buffer, bbo_buffer, setup_state, cvd_state,
                  relevant_trades, relevant_bbo_updates, new_trade_buffer,
                  trade_data_lock, bbo_data_lock, trade_pending, bbo_pending,
                  delivered, entry_call >>

\* a step of the kline thread that only moves between the two buffers
kline_step_leaves ==
  << script, keep_locals, globals,
     last_kline_start_time, ha_state, setup_state, cvd_state,
     kline_candle, new_trade_buffer, trade_pending, bbo_pending, delivered,
     entry_call >>

\* line 146: with self.trade_data_lock
KlineLockTrades ==
  /\ kline_pc = "trade_lock"
  /\ can_acquire(trade_data_lock)
  /\ trade_data_lock' = "kline"
  /\ kline_pc' = "trade_read"
  /\ UNCHANGED << kline_step_leaves, trade_buffer, bbo_buffer,
                  relevant_trades, relevant_bbo_updates, bbo_data_lock >>

\* line 147: relevant_trades = [...]
KlineReadTrades ==
  /\ kline_pc = "trade_read"
  /\ relevant_trades' = relevant_trades_of(trade_buffer,
                           kline_candle[1].start, kline_candle[1].end)
  /\ kline_pc' = "trade_write"
  /\ UNCHANGED << kline_step_leaves, trade_buffer, bbo_buffer,
                  relevant_bbo_updates, trade_data_lock, bbo_data_lock >>

\* line 148 and the end of the with-block
KlineWriteTrades ==
  /\ kline_pc = "trade_write"
  /\ trade_buffer' = remaining_trades_of(trade_buffer, kline_candle[1].end)
  /\ trade_data_lock' = "free"
  /\ kline_pc' = "bbo_lock"
  /\ UNCHANGED << kline_step_leaves, bbo_buffer, relevant_trades,
                  relevant_bbo_updates, bbo_data_lock >>

\* line 149: with self.bbo_data_lock
KlineLockBbo ==
  /\ kline_pc = "bbo_lock"
  /\ can_acquire(bbo_data_lock)
  /\ bbo_data_lock' = "kline"
  /\ kline_pc' = "bbo_read"
  /\ UNCHANGED << kline_step_leaves, trade_buffer, bbo_buffer,
                  relevant_trades, relevant_bbo_updates, trade_data_lock >>

\* line 150: relevant_bbo_updates = [...]
KlineReadBbo ==
  /\ kline_pc = "bbo_read"
  /\ relevant_bbo_updates' = relevant_bbo_of(bbo_buffer,
                                kline_candle[1].start, kline_candle[1].end)
  /\ kline_pc' = "bbo_write"
  /\ UNCHANGED << kline_step_leaves, trade_buffer, bbo_buffer,
                  relevant_trades, trade_data_lock, bbo_data_lock >>

\* line 151 and the end of the with-block
KlineWriteBbo ==
  /\ kline_pc = "bbo_write"
  /\ bbo_buffer' = remaining_bbo_of(bbo_buffer, kline_candle[1].end)
  /\ bbo_data_lock' = "free"
  /\ kline_pc' = "finish"
  /\ UNCHANGED << kline_step_leaves, trade_buffer, relevant_trades,
                  relevant_bbo_updates, trade_data_lock >>

\* lines 153-176
KlineFinish ==
  /\ kline_pc = "finish"
  /\ finish_candle(kline_candle[1], last_ha_open[1], last_ha_close[1],
                   relevant_trades, relevant_bbo_updates)
  /\ kline_pc' = "idle"
  /\ kline_candle' = None
  /\ UNCHANGED << script, keep_locals, globals,
                  trade_buffer, bbo_buffer, last_kline_start_time,
                  ha_state, cvd_state, relevant_trades, relevant_bbo_updates,
                  new_trade_buffer, trade_data_lock, bbo_data_lock,
                  trade_pending, bbo_pending, delivered, entry_call >>

\* a step of a producer thread leaves the consumer's fields alone
producer_step_leaves ==
  << script, keep_locals, globals,
     last_kline_start_time, ha_state, setup_state, cvd_state,
     relevant_trades, relevant_bbo_updates, kline_pc, kline_candle,
     new_trade_buffer, delivered, entry_call >>

\* line 213: with self.trade_data_lock
TradeBegin(message) ==
  /\ script = "OrderF_HAFlags"
  /\ trade_pending = None
  /\ can_acquire(trade_data_lock)
  /\ trade_data_lock' = "trade"
  /\ trade_pending' = Some(message.data)
  /\ UNCHANGED << producer_step_leaves, trade_buffer, bbo_buffer,
                  bbo_data_lock, bbo_pending >>

\* line 214: one turn of the loop, or its end and the end of the with-block
TradeAppend ==
  /\ trade_pending # None
  /\ IF trade_pending[1] # << >>
     THEN /\ trade_buffer' = Append(trade_buffer, Head(trade_pending[1]))
          /\ trade_pending' = Some(Tail(trade_pending[1]))
          /\ UNCHANGED trade_data_lock
     ELSE /\ trade_pending' = None
          /\ trade_data_lock' = "free"
          /\ UNCHANGED trade_buffer
  /\ UNCHANGED << producer_step_leaves, bbo_buffer, bbo_data_lock,
                  bbo_pending >>

\* lines 217-222: the imbalance of the message
BboBegin(message) ==
  /\ script = "OrderF_HAFlags"
  /\ bbo_pending = None
  /\ message.data.b # << >>
  /\ message.data.a # << >>
  /\ bbo_pending' =
       Some([ts |-> message.ts,
             imbalance |-> imbalance_of(message.data.b[1][2],
                                        message.data.a[1][2])])
  /\ UNCHANGED << producer_step_leaves, trade_buffer, bbo_buffer,
                  trade_data_lock, bbo_data_lock, trade_pending >>

\* line 223: with self.bbo_data_lock: self.bbo_buffer.append(...)
BboAppend ==
  /\ bbo_pending # None
  /\ can_acquire(bbo_data_lock)
  /\ bbo_buffer' = Append(bbo_buffer, bbo_pending[1])
  /\ bbo_pending' = None
  /\ UNCHANGED << producer_step_leaves, trade_buffer, trade_data_lock,
                  bbo_data_lock, trade_pending >>

InitOverlap ==
  /\ script = "OrderF_HAFlags"
  /\ keep_locals = TRUE
  /\ TrackerInit
  /\ GlobalsInit
  /\ entry_call = None

\* timestamps of the events: the boundary of the coming candle, which is
\* the one after the candle being processed, and the boundary before it
OverlapTimes == {next_start - Interval, next_start}

\* trade messages carry one trade or two
OverlapTrade ==
  /\ Len(trade_buffer) < MaxOverlapBuffered
  /\ \E T \in OverlapTimes :
       \/ TradeBegin(Trade(T, "Buy", 1))
       \/ /\ Len(trade_buffer) + 1 < MaxOverlapBuffered
          /\ TradeBegin([data |-> Trade(T, "Buy", 1).data
                                    \o Trade(T, "Sell", 1).data])

OverlapBbo ==
  /\ Len(bbo_buffer) < MaxBuffered
  /\ \E ts \in OverlapTimes : BboBegin(Bbo(ts, 1, 0))

OverlapKline ==
  /\ next_start <= MaxOverlapCandles * Interval
  /\ KlineBegin(Kline(next_start, Rising, TRUE).data[1])

NextOverlap ==
  \/ OverlapTrade \/ TradeAppend
  \/ OverlapBbo \/ BboAppend
  \/ OverlapKline \/ KlineLockTrades \/ KlineReadTrades \/ KlineWriteTrades
  \/ KlineLockBbo \/ KlineReadBbo \/ KlineWriteBbo \/ KlineFinish

SpecOverlap == InitOverlap /\ [][NextOverlap]_vars

-----------------------------------------------------------------------------
(* OverlapCvd: the callbacks of the CVD tracker on threads of their own.   *)
(* trade_exhaust2.py has no lock: list.append is one step, and the buffer  *)
(* clean-up is two, the comprehension and the assignment of its result.    *)

\* lines 45-56: the guards of handle_kline_message
CvdKlineBegin(candle) ==
  /\ script = "trade_exhaust2"
  /\ kline_pc = "idle"
  /\ candle.confirm = TRUE
  /\ last_kline_start_time # Some(candle.start)
  /\ last_kline_start_time' = Some(candle.start)
  /\ kline_candle' = Some(candle)
  /\ kline_pc' = "aggregate"
  /\ UNCHANGED << script, keep_locals, globals,
                  trade_buffer, bbo_buffer, ha_state, setup_state,
                  cvd_state, relevant_trades, relevant_bbo_updates,
                  new_trade_buffer, trade_data_lock, bbo_data_lock,
                  trade_pending, bbo_pending, delivered, entry_call >>

\* lines 60-121: the trades of the window are read and aggregated
CvdAggregate ==
  /\ script = "trade_exhaust2"
  /\ kline_pc = "aggregate"
  /\ aggregate_cvd(kline_candle[1])
  /\ kline_pc' = "cleanup"
  /\ UNCHANGED << script, keep_locals, globals,
                  trade_buffer, bbo_buffer, last_kline_start_time,
                  ha_state, ha_green_streak, consolidation_watch_countdown,
                  alert_cooldown, last_candle_data, strict_alerts,
                  watch_alerts, candles_since_alert, relevant_bbo_updates,
                  kline_candle, new_trade_buffer, trade_data_lock,
                  bbo_data_lock, trade_pending, bbo_pending, delivered,
                  entry_call >>

\* lines 124-127, right-hand side: the list of the trades to keep
CvdCleanup ==
  /\ script = "trade_exhaust2"
  /\ kline_pc = "cleanup"
  /\ new_trade_buffer' =
       Some(remaining_trades_of(trade_buffer, kline_candle[1].end))
  /\ kline_pc' = "assign"
  /\ UNCHANGED << script, keep_locals, globals,
                  trade_buffer, bbo_buffer, last_kline_start_time,
                  ha_state, setup_state, cvd_state, relevant_trades,
                  relevant_bbo_updates, kline_candle, trade_data_lock,
                  bbo_data_lock, trade_pending, bbo_pending, delivered,
                  entry_call >>

\* line 124, left-hand side: self.trade_buffer = that list
CvdAssign ==
  /\ script = "trade_exhaust2"
  /\ kline_pc = "assign"
  /\ trade_buffer' = new_trade_buffer[1]
  /\ new_trade_buffer' = None
  /\ kline_pc' = "idle"
  /\ kline_candle' = None
  /\ UNCHANGED << script, keep_locals, globals,
                  bbo_buffer, last_kline_start_time, ha_state,
                  setup_state, cvd_state, relevant_trades,
                  relevant_bbo_updates, trade_data_lock, bbo_data_lock,
                  trade_pending, bbo_pending, delivered, entry_call >>

InitOverlapCvd ==
  /\ script = "trade_exhaust2"
  /\ keep_locals = TRUE
  /\ TrackerInit
  /\ GlobalsInit
  /\ entry_call = None

\* lines 40-43 with a message of one trade: one append, at any moment
OverlapCvdTrade ==
  /\ Len(trade_buffer) < MaxOverlapBuffered
  /\ \E T \in OverlapTimes, side \in {"Buy", "Sell"} :
       handle_trade_message_cvd(Trade(T, side, 1))
  /\ UNCHANGED << delivered, entry_call >>

OverlapCvdKline ==
  /\ next_start <= (MaxOverlapCandles + 1) * Interval
  /\ CvdKlineBegin(Kline(next_start, Rising, TRUE).data[1])

NextOverlapCvd ==
  \/ OverlapCvdTrade \/ OverlapCvdKline
  \/ CvdAggregate \/ CvdCleanup \/ CvdAssign

SpecOverlapCvd == InitOverlapCvd /\ [][NextOverlapCvd]_vars

-----------------------------------------------------------------------------
(* Entry: _check_entry_conditions applied to any record, with any record   *)
(* or none stored as last_candle_data                                      *)

Ratios == {0, RED_ZONE_THRESHOLD - 1, RED_ZONE_THRESHOLD,
           GREEN_ZONE_THRESHOLD - 1, GREEN_ZONE_THRESHOLD, 10000}

EntryRecords ==
  [ HA_color : {"Green", "Red"}, agg_ratio : Ratios, avg_bbo_imba : Ratios,
    close_price : 1..MaxPrice ]

\* the arguments of the call are drawn here, the result is pending
InitEntry ==
  /\ script = "OrderF_HAFlags"
  /\ keep_locals = FALSE
  /\ TrackerInit
  /\ GlobalsInit
  /\ \E current_data \in EntryRecords,
        last \in {None} \cup {Some(r) : r \in EntryRecords} :
       entry_call = Some([current_data |-> current_data, last |-> last,
                          result |-> None])

CheckEntry ==
  /\ entry_call[1].result = None
  /\ entry_call' =
       Some([entry_call[1] EXCEPT !.result =
               Some(check_entry_conditions(entry_call[1].current_data,
                                           entry_call[1].last))])
  /\ UNCHANGED << script, keep_locals, globals,
                  tracker, logged, candles_since_alert, delivered,
                  observed, threads >>

NextEntry == CheckEntry

SpecEntry == InitEntry /\ [][NextEntry]_vars

-----------------------------------------------------------------------------
(* Precision: the HA-flags tracker on an in-order feed of rising candles   *)
(* whose trades carry volumes that bring agg_ratio within rounding         *)
(* distance of the green-zone threshold, or exactly onto it                *)

\* 6050 / (6050 + 4951) = 0.549950004..., 6050 / (6050 + 4950) = 0.55
PreciseTrades == { <<"Buy", 6050>>, <<"Sell", 4951>>, <<"Sell", 4950>> }

InitPrecision ==
  /\ script = "OrderF_HAFlags"
  /\ keep_locals = TRUE
  /\ TrackerInit
  /\ GlobalsInit
  /\ entry_call = None

PrecisionTrade ==
  /\ Len(trade_buffer) < MaxPreciseTrades
  /\ next_start <= MaxPreciseCandles * Interval
  /\ \E sv \in PreciseTrades :
       handle_trade_message(Trade(next_start, sv[1], sv[2]))
  /\ delivered' = Some([callback |-> "trade"])
  /\ UNCHANGED entry_call

\* the next candle closes
PrecisionKline ==
  /\ next_start <= MaxPreciseCandles * Interval
  /\ handle_kline_message(Kline(next_start, Rising, TRUE))
  /\ delivered' = KlineDelivery(next_start, TRUE)
  /\ UNCHANGED entry_call

NextPrecision == PrecisionTrade \/ PrecisionKline

SpecPrecision == InitPrecision /\ [][NextPrecision]_vars

-----------------------------------------------------------------------------
(* HeikinAshi: the HA-flags tracker on an in-order feed of candle closes   *)
(* of three shapes, one of them flat (open = high = low = close)           *)

Flat == [open |-> 3, high |-> 3, low |-> 3, close |-> 3]

HaShapes == {Rising, Falling, Flat}

InitHeikinAshi ==
  /\ script = "OrderF_HAFlags"
  /\ keep_locals = FALSE
  /\ TrackerInit
  /\ GlobalsInit
  /\ entry_call = None

\* the next candle closes
HeikinAshiKline ==
  /\ next_start <= MaxHaCandles * Interval
  /\ \E shape \in HaShapes :
       handle_kline_message(Kline(next_start, shape, TRUE))
  /\ delivered' = KlineDelivery(next_start, TRUE)
  /\ UNCHANGED entry_call

NextHeikinAshi == HeikinAshiKline

SpecHeikinAshi == InitHeikinAshi /\ [][NextHeikinAshi]_vars

-----------------------------------------------------------------------------
(* order_1minStats.py: the websocket thread appends book updates to the    *)
(* global deque bbo_updates, the main thread drains it once a minute; both *)
(* do so inside `with data_lock:`.  Time is counted in ticks of which      *)
(* Minute make a minute.                                                   *)

\* fields of the tracker, which this script does not have
no_tracker == << tracker, logged, candles_since_alert, observed, threads,
                 delivered, entry_call >>

\* lines 23-49 of handle_bbo_message: the update of a snapshot message,
\* still without its time, and the last prices
StatsBboBegin(message) ==
  /\ script = "order_1minStats"
  /\ stats_pending = None
  /\ message.type = "snapshot"
  /\ message.data.b # << >>
  /\ message.data.a # << >>
  /\ LET bid_price == message.data.b[1][1]
         ask_price == message.data.a[1][1]
     IN  /\ stats_pending' =
              Some([mid_price |-> Rat(ask_price + bid_price, 2),
                    spread |-> ask_price - bid_price,
                    imbalance_ratio |-> imbalance_of(message.data.b[1][2],
                                                     message.data.a[1][2]),
                    bid_tick |-> (bid_price # last_bid_price),
                    ask_tick |-> (ask_price # last_ask_price)])
         /\ last_bid_price' = bid_price
         /\ last_ask_price' = ask_price
  /\ UNCHANGED << script, keep_locals, chart, no_tracker,
                  bbo_updates, data_lock, clock, report_pc, report_period,
                  updates_to_process, drained_from >>

\* the update with "time": time.time()
stamped(update, now) ==
  [time |-> now, mid_price |-> update.mid_price, spread |-> update.spread,
   imbalance_ratio |-> update.imbalance_ratio, bid_tick |-> update.bid_tick,
   ask_tick |-> update.ask_tick]

\* lines 51-59: with data_lock: bbo_updates.append({...})
StatsBboAppend ==
  /\ script = "order_1minStats"
  /\ stats_pending # None
  /\ can_acquire(data_lock)
  /\ bbo_updates' = Append(bbo_updates, stamped(stats_pending[1], clock))
  /\ stats_pending' = None
  /\ UNCHANGED << script, keep_locals, chart, no_tracker,
                  data_lock, last_bid_price, last_ask_price, clock,
                  report_pc, report_period, updates_to_process,
                  drained_from >>

\* lines 73-81: the previous full minute of `now`
period_of(now) ==
  LET current_minute_start == now - (now % Minute)
  IN  [start |-> current_minute_start - Minute,
       end |-> current_minute_start]

\* what a step of process_and_report leaves alone
report_step_leaves ==
  << script, keep_locals, chart, no_tracker,
     last_bid_price, last_ask_price, stats_pending, clock >>

\* lines 73-89: the period and the empty list
ReportBegin ==
  /\ script = "order_1minStats"
  /\ report_pc = "idle"
  /\ report_period' = Some(period_of(clock))
  /\ updates_to_process' = << >>
  /\ report_pc' = "lock"
  /\ UNCHANGED << report_step_leaves, bbo_updates, data_lock, drained_from >>

\* line 90: with data_lock
ReportLock ==
  /\ report_pc = "lock"
  /\ can_acquire(data_lock)
  /\ data_lock' = "report"
  /\ drained_from' = bbo_updates
  /\ report_pc' = "drain"
  /\ UNCHANGED << report_step_leaves, bbo_updates, report_period,
                  updates_to_process >>

\* line 93: the loop goes on while the head is older than the period's end
head_is_old(deque, period_end_ts) ==
  deque # << >> /\ Head(deque).time < period_end_ts

\* variant: every popped update is processed
in_period_any(update, period_start_ts) == TRUE

\* line 98: only the updates of the period are processed
in_period(update, period_start_ts) == update.time >= period_start_ts

\* lines 93-99: one turn of the loop
ReportPop ==
  /\ report_pc = "drain"
  /\ head_is_old(bbo_updates, report_period[1].end)
  /\ bbo_updates' = Tail(bbo_updates)
  /\ updates_to_process' =
       IF in_period(Head(bbo_updates), report_period[1].start)
       THEN Append(updates_to_process, Head(bbo_updates))
       ELSE updates_to_process
  /\ UNCHANGED << report_step_leaves, data_lock, report_pc, report_period,
                  drained_from >>

\* the end of the loop and of the with-block; lines 101-137 print the report
ReportRelease ==
  /\ report_pc = "drain"
  /\ ~head_is_old(bbo_updates, report_period[1].end)
  /\ data_lock' = "free"
  /\ report_pc' = "idle"
  /\ UNCHANGED << report_step_leaves, bbo_updates, report_period,
                  updates_to_process, drained_from >>

\* time passes
Tick ==
  /\ script = "order_1minStats"
  /\ clock < MaxMinutes * Minute
  /\ clock' = clock + 1
  /\ UNCHANGED << script, keep_locals, chart, no_tracker,
                  bbo_updates, data_lock, last_bid_price, last_ask_price,
                  stats_pending, report_pc, report_period,
                  updates_to_process, drained_from >>

(* Stats: the two threads of order_1minStats.py and the clock *)

InitStats ==
  /\ script = "order_1minStats"
  /\ keep_locals = FALSE
  /\ TrackerInit
  /\ GlobalsInit
  /\ entry_call = None

\* the orderbook stream delivers snapshots of the top of book
StatsBbo ==
  /\ Len(bbo_updates) < MaxStatsBuffered
  /\ StatsBboBegin([type |-> "snapshot", data |-> Bbo(clock, 1, 0).data])

NextStats ==
  \/ StatsBbo \/ StatsBboAppend
  \/ ReportBegin \/ ReportLock \/ ReportPop \/ ReportRelease
  \/ Tick

SpecStats == InitStats /\ [][NextStats]_vars

-----------------------------------------------------------------------------
(* heinki_ashi.py: the websocket thread puts kline events into data_queue, *)
(* the animation empties the queue into historical_df and transforms the   *)
(* whole frame.  A frame is the sequence of its rows; the index of a row   *)
(* is its field timestamp.                                                 *)

\* what the tracker scripts and order_1minStats own
no_chart == << tracker, logged, candles_since_alert, observed, threads,
               delivered, entry_call, stats >>

\* handle_websocket_message(message)
handle_websocket_message(message) ==
  /\ script = "heinki_ashi"
  /\ LET candle == message.data[1]
     IN  IF "start" \in DOMAIN candle
         THEN data_queue' = Append(data_queue, candle)
         ELSE UNCHANGED data_queue
  /\ UNCHANGED << script, keep_locals, no_chart,
                  historical_df, latest_candle, ha_full_df >>

\* lines 132-139: pd.to_datetime(int(start), unit='ms') keeps the order and
\* the identity of the starts, so the index is counted in milliseconds
row_of(candle) ==
  [timestamp |-> candle.start, open |-> candle.open, high |-> candle.high,
   low |-> candle.low, close |-> candle.close, volume |-> candle.volume]

\* line 144: historical_df.loc[timestamp] = new_data sets the row of an
\* index that exists and adds a row at the end otherwise
set_row(df, row) ==
  IF \E i \in 1..Len(df) : df[i].timestamp = row.timestamp
  THEN [i \in 1..Len(df) |->
          IF df[i].timestamp = row.timestamp THEN row ELSE df[i]]
  ELSE Append(df, row)

RECURSIVE read_queue(_, _)
\* lines 127-149: the loop over the queue
read_queue(df, queue) ==
  IF queue = << >> THEN df
  ELSE read_queue(set_row(df, row_of(Head(queue))), Tail(queue))

\* DataFrame.sort_index()
sort_index(df) == SortSeq(df, LAMBDA a, b : a.timestamp < b.timestamp)

\* the columns of a row, which is what drop_duplicates compares
columns_of(row) ==
  << row.open, row.high, row.low, row.close, row.volume >>

RECURSIVE drop_duplicates(_)
\* DataFrame.drop_duplicates(keep='last'): a row goes when a later row has
\* the same values in all columns; the index is not looked at
drop_duplicates(df) ==
  IF df = << >> THEN << >>
  ELSE IF \E j \in 2..Len(df) : columns_of(df[j]) = columns_of(Head(df))
       THEN drop_duplicates(Tail(df))
       ELSE << Head(df) >> \o drop_duplicates(Tail(df))

RECURSIVE latest_after(_, _)
\* the data read last for each start, after a queue has been read
latest_after(latest, queue) ==
  IF queue = << >> THEN latest
  ELSE latest_after([latest EXCEPT ![Head(queue).start] =
                       Some(columns_of(Head(queue)))], Tail(queue))

\* process_queue_data()
process_queue_data ==
  /\ data_queue' = << >>
  /\ historical_df' =
       LET df == read_queue(historical_df, data_queue)
       IN  IF df # << >> THEN drop_duplicates(sort_index(df)) ELSE df
  /\ latest_candle' = latest_after(latest_candle, data_queue)

\* variant: the first row opens at its raw open
first_ha_open_plain(row) == Float(row.open)

\* line 83: HA open of the first row
first_ha_open(row) == RatDiv(Float(row.open + row.close), 2)

RECURSIVE ha_open_rows(_, _, _)
\* lines 85-87: the open column, filled row after row
ha_open_rows(opens, closes, n) ==
  IF Len(opens) = n THEN opens
  ELSE ha_open_rows(
         Append(opens, RatDiv(RatAdd(opens[Len(opens)],
                                     closes[Len(opens)]), 2)),
         closes, n)

RatMax(x, y) == IF RatLess(x, y) THEN y ELSE x
RatMin(x, y) == IF RatLess(y, x) THEN y ELSE x

\* calculate_heikin_ashi(df_in)
calculate_heikin_ashi(df_in) ==
  IF df_in = << >> THEN df_in
  ELSE LET n == Len(df_in)
           closes == [i \in 1..n |->
                        RatDiv(Float(df_in[i].open + df_in[i].high
                                     + df_in[i].low + df_in[i].close), 4)]
           opens == ha_open_rows(<< first_ha_open(df_in[1]) >>, closes, n)
       IN  [i \in 1..n |->
              [timestamp |-> df_in[i].timestamp,
               open |-> opens[i],
               close |-> closes[i],
               high |-> RatMax(Float(df_in[i].high),
                               RatMax(opens[i], closes[i])),
               low |-> RatMin(Float(df_in[i].low),
                              RatMin(opens[i], closes[i])),
               volume |-> df_in[i].volume]]

\* animate(i): the queue is read and, from two candles on, the whole frame
\* is transformed; the rest of the function draws
animate ==
  /\ script = "heinki_ashi"
  /\ process_queue_data
  /\ IF Len(historical_df') < 2
     THEN UNCHANGED ha_full_df
     ELSE ha_full_df' = Some(calculate_heikin_ashi(historical_df'))
  /\ UNCHANGED << script, keep_locals, no_chart >>

(* Chart: the two threads of heinki_ashi.py.  The stream repeats the open  *)
(* candle while it changes and closes it; in a quiet market candles are    *)
(* flat and have no volume.                                                *)

ChartStarts == {k * Interval : k \in 1..MaxChartCandles}

ChartShapes == {Rising, Flat}

ChartCandle(start, shape) ==
  [start |-> start, open |-> shape.open, high |-> shape.high,
   low |-> shape.low, close |-> shape.close,
   volume |-> IF shape = Flat THEN 0 ELSE 5]

InitChart ==
  /\ script = "heinki_ashi"
  /\ keep_locals = FALSE
  /\ TrackerInit
  /\ GlobalsInit
  /\ entry_call = None

\* a kline event, or a message whose candle has no start
ChartKline ==
  /\ Len(data_queue) < MaxQueued
  /\ \/ \E start \in ChartStarts, shape \in ChartShapes :
          handle_websocket_message(
            [data |-> << ChartCandle(start, shape) >>])
     \/ handle_websocket_message([data |-> << << >> >>])

NextChart == ChartKline \/ animate

SpecChart == InitChart /\ [][NextChart]_vars

-----------------------------------------------------------------------------
(* Agreement: a sequence of candles is given to calculate_heikin_ashi as   *)
(* one frame and, candle by candle, to a fresh HA-flags tracker            *)

\* the frame of a sequence of candle shapes, one boundary after the other
frame_of(shapes) ==
  [i \in 1..Len(shapes) |->
     [timestamp |-> i * Interval, open |-> shapes[i].open,
      high |-> shapes[i].high, low |-> shapes[i].low,
      close |-> shapes[i].close, volume |-> 0]]

InitAgreement ==
  /\ script = "OrderF_HAFlags"
  /\ keep_locals = FALSE
  /\ TrackerInit
  /\ StatsInit
  /\ data_queue = << >>
  /\ latest_candle = [s \in Starts |-> None]
  /\ ha_full_df = None
  /\ \E n \in 1..MaxAgreeCandles :
       \E shapes \in [1..n -> HaShapes] : historical_df = frame_of(shapes)
  /\ entry_call = None

\* the next candle of the sequence closes
AgreementKline ==
  /\ total_records < Len(historical_df)
  /\ LET row == historical_df[total_records + 1]
     IN  /\ handle_kline_message(Kline(row.timestamp, row, TRUE))
         /\ delivered' = KlineDelivery(row.timestamp, TRUE)
  /\ UNCHANGED entry_call

\* the whole sequence is transformed
AgreementBatch ==
  /\ ha_full_df = None
  /\ ha_full_df' = Some(calculate_heikin_ashi(historical_df))
  /\ UNCHANGED << script, keep_locals, no_chart,
                  data_queue, historical_df, latest_candle >>

NextAgreement == AgreementKline \/ AgreementBatch

SpecAgreement == InitAgreement /\ [][NextAgreement]_vars

-----------------------------------------------------------------------------
(* Properties *)

\* this step processed a candle in the HA-flags tracker
CandleProcessed ==
  script = "OrderF_HAFlags" /\ records_logged' # records_logged

\* alert lines logged by this step
AlertsFired ==
  (strict_alerts' - strict_alerts) + (watch_alerts' - watch_alerts)

\* the record of the candle this step processed
Candle == last_candle_data'[1]

\* the entry conditions as the specification words them
EntryHolds(r) ==
  /\ r.HA_color = "Green"
  /\ r.agg_ratio >= RED_ZONE_THRESHOLD
  /\ r.avg_bbo_imba >= RED_ZONE_THRESHOLD
  /\ (r.agg_ratio >= GREEN_ZONE_THRESHOLD
      \/ r.avg_bbo_imba >= GREEN_ZONE_THRESHOLD)

\* the cooldown is over once step 1 has decremented it
NoCooldownAfterDecrement == alert_cooldown <= 1

\* C1: after a candle that fires an alert, none of the next 5 processed
\* candles fires an alert: an alert fires only when no alert fired before or
\* at least ALERT_COOLDOWN_PERIOD candles were processed since the last one.
C1_NoAlertInNextFive ==
  [][ (CandleProcessed /\ AlertsFired > 0)
        => \/ candles_since_alert = None
           \/ candles_since_alert[1] >= ALERT_COOLDOWN_PERIOD ]_vars

\* C2: a processed candle whose cooldown is still positive after the step-1
\* decrement fires no alert and runs no detection step: the cooldown only
\* loses one, the watch is neither started nor decremented, and the streak
\* update of step 2 is the only other effect.
C2_CoolingDownSkipsDetection ==
  [][ (CandleProcessed /\ alert_cooldown > 1)
        => /\ AlertsFired = 0
           /\ alert_cooldown' = alert_cooldown - 1
           /\ IF Candle.HA_color = "Green"
              THEN /\ ha_green_streak' = ha_green_streak + 1
                   /\ consolidation_watch_countdown'
                        = consolidation_watch_countdown
              ELSE /\ ha_green_streak' = 0
                   /\ consolidation_watch_countdown' = 0 ]_vars

\* a candle was processed two candles after an alert, cooldown still running
C2_Witness ==
  /\ candles_since_alert = Some(2)
  /\ alert_cooldown = ALERT_COOLDOWN_PERIOD - 2
  /\ delivered # None /\ delivered[1].callback = "kline"

\* C3: processing a candle whose HA color is Red leaves ha_green_streak = 0
\* and consolidation_watch_countdown = 0 after that candle, in every state
\* of the detector.
C3_RedResets ==
  [][ (CandleProcessed /\ Candle.HA_color = "Red")
        => /\ ha_green_streak' = 0
           /\ consolidation_watch_countdown' = 0 ]_vars

\* a Red candle was processed while a cooldown was running
C3_Witness ==
  /\ last_candle_data # None
  /\ last_candle_data[1].HA_color = "Red"
  /\ alert_cooldown > 0
  /\ ha_green_streak = 0

\* C4: a candle that brings the streak to exactly 4 with no cooldown left
\* after the decrement and that meets the entry conditions fires exactly one
\* Strict Entry alert and leaves alert_cooldown = 5 and the watch at 0; the
\* Green candles that bring the streak to 1, 2 and 3 fire no alert.
C4_StrictEntry ==
  [][ CandleProcessed
        => /\ (ha_green_streak' = 4 /\ NoCooldownAfterDecrement
                 /\ EntryHolds(Candle))
                => /\ strict_alerts' = strict_alerts + 1
                   /\ watch_alerts' = watch_alerts
                   /\ alert_cooldown' = ALERT_COOLDOWN_PERIOD
                   /\ consolidation_watch_countdown' = 0
           /\ (ha_green_streak' \in 1..3) => AlertsFired = 0 ]_vars

\* the fourth Green candle has just fired the Strict Entry alert
C4_Witness ==
  /\ ha_green_streak = 4
  /\ strict_alerts = 1
  /\ candles_since_alert = Some(0)
  /\ alert_cooldown = ALERT_COOLDOWN_PERIOD

\* C5: a candle that brings the streak to exactly 4 with no cooldown left
\* after the decrement and that fails the entry conditions fires no alert,
\* leaves alert_cooldown at 0 and sets consolidation_watch_countdown to 3.
C5_FailedStrictStartsWatch ==
  [][ (CandleProcessed /\ ha_green_streak' = 4 /\ NoCooldownAfterDecrement
         /\ ~EntryHolds(Candle))
        => /\ AlertsFired = 0
           /\ alert_cooldown' = 0
           /\ consolidation_watch_countdown' = CONSOLIDATION_WATCH_PERIOD ]_vars

\* the fourth Green candle had a red-zone aggression ratio: watch started
C5_Witness ==
  /\ ha_green_streak = 4
  /\ last_candle_data # None
  /\ last_candle_data[1].agg_ratio < RED_ZONE_THRESHOLD
  /\ consolidation_watch_countdown = CONSOLIDATION_WATCH_PERIOD
  /\ strict_alerts + watch_alerts = 0

\* C6: on a processed candle with no cooldown left, a streak other than 4
\* and a watch still pending after the streak update: if the entry
\* conditions hold a Consolidation-Watch Entry alert fires, alert_cooldown
\* becomes 5 and the watch 0; otherwise no alert fires and the watch
\* decreases by exactly 1.
C6_WatchProtocol ==
  [][ (CandleProcessed /\ NoCooldownAfterDecrement /\ ha_green_streak' # 4
         /\ Candle.HA_color = "Green" /\ consolidation_watch_countdown > 0)
        => IF EntryHolds(Candle)
           THEN /\ watch_alerts' = watch_alerts + 1
                /\ strict_alerts' = strict_alerts
                /\ alert_cooldown' = ALERT_COOLDOWN_PERIOD
                /\ consolidation_watch_countdown' = 0
           ELSE /\ AlertsFired = 0
                /\ consolidation_watch_countdown'
                     = consolidation_watch_countdown - 1 ]_vars

\* the watch lost one at streak 5 and the entry fired at streak 6
C6_Witness ==
  /\ ha_green_streak = 6
  /\ watch_alerts = 1
  /\ strict_alerts = 0
  /\ candles_since_alert = Some(0)

\* C7: a processed candle fires at most one alert, and a candle that fires
\* an alert ends with alert_cooldown = ALERT_COOLDOWN_PERIOD and
\* consolidation_watch_countdown = 0.
C7_OneAlertPerCandle ==
  [][ CandleProcessed
        => /\ AlertsFired <= 1
           /\ AlertsFired = 1
                => /\ alert_cooldown' = ALERT_COOLDOWN_PERIOD
                   /\ consolidation_watch_countdown' = 0 ]_vars

\* an alert has just fired out of a pending watch
C7_Witness ==
  /\ candles_since_alert = Some(0)
  /\ watch_alerts >= 1
  /\ ha_green_streak \in 5..7
  /\ alert_cooldown = ALERT_COOLDOWN_PERIOD
  /\ consolidation_watch_countdown = 0

C9_RepeatIsNoOp ==
  [][ (/\ delivered' # None
       /\ delivered'[1].callback = "kline"
       /\ delivered'[1].confirm
       /\ delivered'[1].repeat)
        => UNCHANGED << tracker, logged, candles_since_alert >> ]_vars

\* a processed candle was delivered again while both buffers held events
C9_Witness ==
  /\ delivered # None
  /\ delivered[1].callback = "kline"
  /\ delivered[1].confirm
  /\ delivered[1].repeat
  /\ trade_buffer # << >>
  /\ bbo_buffer # << >>
  /\ last_candle_data # None

\* C10: whatever kline events the transport delivers, a later re-delivery of
\* an older confirmed candle included, every confirmed candle start is
\* processed exactly once: a confirmed candle with a start other than the
\* last processed one yields a record, and no boundary has two records.
C10_EachBoundaryOnce ==
  [][ script = "OrderF_HAFlags" =>
      /\ \A s \in Starts : records_logged'[s] <= 1
      /\ (/\ delivered' # None
          /\ delivered'[1].callback = "kline"
          /\ delivered'[1].confirm
          /\ ~delivered'[1].repeat)
           => total_records' = total_records + 1 ]_vars

\* C11: a kline event whose confirm flag is false changes nothing (no field
\* of the tracker, no record, no alert), and a candle is processed only by
\* a kline event whose confirm flag is true.
C11_UnconfirmedIsNoOp ==
  [][ /\ (/\ delivered' # None
          /\ delivered'[1].callback = "kline"
          /\ ~delivered'[1].confirm)
           => UNCHANGED << tracker, logged, candles_since_alert >>
      /\ (records_logged' # records_logged)
           => /\ delivered'[1].callback = "kline"
              /\ delivered'[1].confirm ]_vars

\* an unconfirmed candle of a new boundary arrived while both buffers held
\* events and a candle had been processed before
C11_Witness ==
  /\ delivered # None
  /\ delivered[1].callback = "kline"
  /\ ~delivered[1].confirm
  /\ ~delivered[1].repeat
  /\ trade_buffer # << >>
  /\ bbo_buffer # << >>
  /\ last_ha_open # None

\* how often a value occurs in a sequence
Count(seq, e) == Cardinality({i \in 1..Len(seq) : seq[i] = e})

RECURSIVE IsSubseq(_, _)
\* part is what is left of whole after deleting some elements
IsSubseq(part, whole) ==
  IF part = << >> THEN TRUE
  ELSE IF whole = << >> THEN FALSE
  ELSE IF Head(part) = Head(whole) THEN IsSubseq(Tail(part), Tail(whole))
  ELSE IsSubseq(part, Tail(whole))

\* result holds the wanted elements of source, all of them, in source order
ExactlyThose(result, source, Wanted(_)) ==
  /\ IsSubseq(result, source)
  /\ \A i \in 1..Len(source) :
       Count(result, source[i]) =
         IF Wanted(source[i]) THEN Count(source, source[i]) ELSE 0

\* the window of the candle this step processed
Lo == last_kline_start_time'[1]
Hi == last_kline_start_time'[1] + Interval - 1

\* C12: the drain of process_candle_data returns exactly the buffered events
\* with start <= timestamp <= end, in buffer order, and leaves exactly the
\* events with timestamp > end, in their order: every event with
\* timestamp <= end is removed, the older ones without being returned.
C12_DrainSplitsBuffer ==
  [][ CandleProcessed =>
        LET TradeIn(t) == Lo <= t.T /\ t.T <= Hi
            TradeNewer(t) == t.T > Hi
            BboIn(b) == Lo <= b.ts /\ b.ts <= Hi
            BboNewer(b) == b.ts > Hi
        IN  /\ ExactlyThose(relevant_trades', trade_buffer, TradeIn)
            /\ ExactlyThose(trade_buffer', trade_buffer, TradeNewer)
            /\ ExactlyThose(relevant_bbo_updates', bbo_buffer, BboIn)
            /\ ExactlyThose(bbo_buffer', bbo_buffer, BboNewer) ]_vars

\* a buffer of trades was split three ways: one trade returned, one kept,
\* the third dropped
C12_Witness ==
  /\ script = "OrderF_HAFlags"
  /\ total_records = 1
  /\ delivered # None
  /\ delivered[1].callback = "kline"
  /\ delivered[1].trades + delivered[1].updates = MaxWindowEvents
  /\ Len(relevant_trades) = 1
  /\ Len(trade_buffer) = 1
  /\ Len(relevant_trades) + Len(trade_buffer) < delivered[1].trades

\* the values a sequence holds
Range(seq) == {seq[i] : i \in 1..Len(seq)}

\* the candle whose window covers a timestamp has been processed
WindowProcessed(T) ==
  \E start \in Starts :
    start <= T /\ T <= start + Interval - 1 /\ records_logged[start] > 0

\* C13 as claimed: every ingested trade is included in the relevant_trades
\* of exactly one extraction, also a trade that arrives after the candle
\* covering its timestamp has been processed: a trade leaves the buffer only
\* by being returned.
C13_ConsumedExactlyOnce ==
  [][ CandleProcessed =>
        \A i \in 1..Len(trade_buffer) :
          (WindowProcessed(trade_buffer[i].T)
             /\ trade_buffer[i] \notin Range(trade_buffer'))
            => trade_buffer[i] \in Range(relevant_trades') ]_vars

\* C13, amended: every ingested trade is included in at most one extraction:
\* a returned trade lies in the window of the processed candle and has left
\* the buffer with that extraction, and a trade that is older than the
\* window is dropped without being returned.
C13_ConsumedAtMostOnce ==
  [][ CandleProcessed =>
        /\ \A i \in 1..Len(relevant_trades') :
             /\ relevant_trades'[i] \in Range(trade_buffer)
             /\ relevant_trades'[i] \notin Range(trade_buffer')
             /\ Lo <= relevant_trades'[i].T
             /\ relevant_trades'[i].T <= Hi
        /\ \A i \in 1..Len(trade_buffer) :
             trade_buffer[i].T < Lo
               => /\ trade_buffer[i] \notin Range(relevant_trades')
                  /\ trade_buffer[i] \notin Range(trade_buffer') ]_vars

\* a second candle was processed and dropped a buffered trade of the window
\* of the first without returning it
C13_Witness ==
  /\ script = "OrderF_HAFlags"
  /\ total_records = 2
  /\ last_kline_start_time = Some(2 * Interval)
  /\ records_logged[Interval] = 1
  /\ delivered # None
  /\ delivered[1].callback = "kline"
  /\ delivered[1].confirm
  /\ delivered[1].trades = 1
  /\ relevant_trades = << >>
  /\ trade_buffer = << >>

\* this step processed a candle in either tracker
AnyCandleProcessed == records_logged' # records_logged

RECURSIVE SumSeq(_)
SumSeq(seq) == IF seq = << >> THEN 0 ELSE Head(seq) + SumSeq(Tail(seq))

\* volume of one side among some trades
VolumeOf(trades, side) ==
  SumSeq([i \in 1..Len(trades) |->
            IF trades[i].S = side THEN trades[i].v ELSE 0])

\* buy volume minus sell volume of the buffered trades of a window
NetVolume(buffer, lo, hi) ==
  SumSeq([i \in 1..Len(buffer) |->
            IF buffer[i].T < lo \/ buffer[i].T > hi THEN 0
            ELSE IF buffer[i].S = "Buy" THEN buffer[i].v
            ELSE IF buffer[i].S = "Sell" THEN 0 - buffer[i].v
            ELSE 0])

\* C17: cumulative_volume_delta is the sum of (buy_volume - sell_volume) over
\* all candles processed since creation: it is 0 before the first candle and
\* every processed candle adds its own delta, also once cvd_history is full
\* and evicts its oldest entry.
C17_CvdIsRunningSum ==
  [][ script = "trade_exhaust2" =>
        /\ total_records = 0 => cumulative_volume_delta = 0
        /\ AnyCandleProcessed =>
             cumulative_volume_delta' =
               cumulative_volume_delta + NetVolume(trade_buffer, Lo, Hi)
        /\ ~AnyCandleProcessed =>
             cumulative_volume_delta' = cumulative_volume_delta ]_vars

\* more candles than the history holds were processed, the history is full
\* and the running sum is not zero
C17_Witness ==
  /\ script = "trade_exhaust2"
  /\ total_records > CvdPeriod
  /\ Len(cvd_history) = CvdPeriod
  /\ cumulative_volume_delta > 1
  /\ cvd_history[Len(cvd_history)] = cumulative_volume_delta

\* the agg_ratio the step logged, in 10^-4 units
LoggedAggRatio ==
  IF script = "OrderF_HAFlags" THEN last_candle_data'[1].agg_ratio
  ELSE cvd_output'[1].agg_ratio

\* C18: a window with no in-range trades, or with in-range trades of total
\* volume 0, has agg_ratio 0.5; a window with no in-range book updates has
\* avg_bbo_imba 0.5; otherwise agg_ratio is buy / (buy + sell), within [0, 1].
C18_NeutralDefaults ==
  [][ AnyCandleProcessed =>
        LET buy  == VolumeOf(relevant_trades', "Buy")
            sell == VolumeOf(relevant_trades', "Sell")
        IN  /\ buy + sell = 0 => LoggedAggRatio = 5000
            /\ buy + sell > 0 =>
                 /\ LoggedAggRatio = Round(Rat(buy, buy + sell), 10000)
                 /\ 0 <= LoggedAggRatio
                 /\ LoggedAggRatio <= 10000
            /\ (script = "OrderF_HAFlags" /\ relevant_bbo_updates' = << >>)
                 => last_candle_data'[1].avg_bbo_imba = 5000 ]_vars

\* a window whose only in-range trades had no volume and that had no
\* in-range book update was given both defaults
C18_Witness ==
  /\ script = "OrderF_HAFlags"
  /\ total_records = 1
  /\ Len(relevant_trades) = 2
  /\ \A i \in 1..Len(relevant_trades) : relevant_trades[i].v = 0
  /\ relevant_bbo_updates = << >>
  /\ bbo_buffer # << >>
  /\ last_candle_data[1].agg_ratio = 5000
  /\ last_candle_data[1].avg_bbo_imba = 5000

RECURSIVE FoldHaOpen(_)
\* HA open after a candle history, by the recurrence alone
FoldHaOpen(history) ==
  LET n == Len(history)
      prev == history[n - 1]
  IN  IF n = 1
      THEN Rat(history[1].open + history[1].close, 2)
      ELSE RatDiv(RatAdd(FoldHaOpen(SubSeq(history, 1, n - 1)),
                         Rat(prev.open + prev.high + prev.low + prev.close,
                             4)), 2)

\* HA close after a candle history
FoldHaClose(history) ==
  LET last == history[Len(history)]
  IN  Rat(last.open + last.high + last.low + last.close, 4)

\* C19: the HA values are a function of the raw candle history alone: two
\* trackers given the same candles hold the same HA_open, HA_close and
\* HA_color, whatever trades and book updates each was given.
C19_HaDependsOnCandlesOnly ==
  IF candle_history = << >>
  THEN last_ha_open = None /\ last_ha_close = None
  ELSE \E ha_open \in {FoldHaOpen(candle_history)},
          ha_close \in {FoldHaClose(candle_history)} :
         /\ last_ha_open = Some(ha_open)
         /\ last_ha_close = Some(ha_close)
         /\ last_candle_data # None
         /\ last_candle_data[1].HA_open = Round(ha_open, 100000)
         /\ last_candle_data[1].HA_close = Round(ha_close, 100000)
         /\ last_candle_data[1].HA_color =
              IF RatLess(ha_open, ha_close) THEN "Green" ELSE "Red"

\* several candles of both shapes were processed, the last one with a trade
\* and a book update in its window
C19_Witness ==
  /\ Len(candle_history) >= 3
  /\ Rising \in Range(candle_history)
  /\ Falling \in Range(candle_history)
  /\ delivered # None
  /\ delivered[1].callback = "kline"
  /\ delivered[1].trades > 0
  /\ last_candle_data[1].agg_ratio # 5000
  /\ last_candle_data[1].avg_bbo_imba # 5000

\* this step ran the kline callback on a confirmed candle and it raised
CandleRaised ==
  /\ delivered' # None
  /\ delivered'[1].callback = "kline"
  /\ delivered'[1].raised # "none"

\* C15: when processing a confirmed candle raises part-way, the accumulated
\* state is not advanced: the HA state, the setup counters, last_candle_data
\* and last_kline_start_time keep their values from before the candle.
C15_FailedCandleLeavesState ==
  [][ CandleRaised =>
        UNCHANGED << last_ha_open, last_ha_close, ha_green_streak,
                     consolidation_watch_countdown, alert_cooldown,
                     last_candle_data, last_kline_start_time >> ]_vars

\* a trade without a numeric 'T' or 'v' is waiting in the buffer
MalformedBuffered ==
  \E i \in 1..Len(trade_buffer) :
    trade_buffer[i].T = Malformed \/ trade_buffer[i].v = Malformed

\* the callback before this one was a candle given up over a buffered trade
LastCandleMetMalformedTrade ==
  /\ delivered # None
  /\ delivered[1].callback = "kline"
  /\ delivered[1].raised \in {"drain", "volume"}

\* C16: a malformed trade is discarded on its own and does not halt the
\* stream: once a candle has met it, it is out of the trade buffer, and
\* every later well-formed confirmed candle is processed to a record.
C16_MalformedTradeDiscarded ==
  [][ (/\ delivered' # None
       /\ delivered'[1].callback = "kline"
       /\ delivered'[1].well_formed
       /\ LastCandleMetMalformedTrade)
        => /\ ~MalformedBuffered
           /\ records_logged' # records_logged ]_vars

\* new is old with one more element at the tail
Appended(new, old) ==
  /\ Len(new) = Len(old) + 1
  /\ SubSeq(new, 1, Len(old)) = old

\* C14: in OrderF_HAFlags the extraction of a buffer is atomic with respect
\* to ingestion on the same buffer.  While the kline thread is between its
\* read and its write of a buffer no producer is inside an append on it, so
\* when it writes, every event of the buffer is either in what it read
\* (in range), dropped (older) or kept (newer); any other change of a buffer
\* is one event appended at its tail.
C14_ExtractionIsAtomic ==
  [][ LET lo == kline_candle[1].start
          hi == kline_candle[1].end
          TradeIn(t) == lo <= t.T /\ t.T <= hi
          TradeNewer(t) == t.T > hi
          BboIn(b) == lo <= b.ts /\ b.ts <= hi
          BboNewer(b) == b.ts > hi
      IN  /\ kline_pc' \in {"trade_read", "trade_write"}
               => trade_pending' = None
          /\ IF kline_pc = "trade_write" /\ kline_pc' # "trade_write"
             THEN /\ ExactlyThose(relevant_trades, trade_buffer, TradeIn)
                  /\ ExactlyThose(trade_buffer', trade_buffer, TradeNewer)
             ELSE \/ trade_buffer' = trade_buffer
                  \/ /\ Appended(trade_buffer', trade_buffer)
                     /\ kline_pc \notin {"trade_read", "trade_write"}
          /\ IF kline_pc = "bbo_write" /\ kline_pc' # "bbo_write"
             THEN /\ ExactlyThose(relevant_bbo_updates, bbo_buffer, BboIn)
                  /\ ExactlyThose(bbo_buffer', bbo_buffer, BboNewer)
             ELSE \/ bbo_buffer' = bbo_buffer
                  \/ /\ Appended(bbo_buffer', bbo_buffer)
                     /\ kline_pc \notin {"bbo_read", "bbo_write"} ]_vars

\* the kline thread has read the bbo buffer and not yet written it while a
\* book update waits for the lock and the trade thread is inside its loop;
\* the trade drain before returned one trade and kept another
C14_Witness ==
  /\ kline_pc = "bbo_write"
  /\ bbo_data_lock = "kline"
  /\ bbo_pending # None
  /\ trade_pending # None
  /\ trade_pending[1] # << >>
  /\ relevant_trades # << >>
  /\ trade_buffer # << >>

\* C20: in the CVD tracker ingestion and extraction on trade_buffer exclude
\* each other, so a trade appended while a candle is being processed, with a
\* timestamp after the candle's end, is still in trade_buffer afterwards:
\* the assignment that ends the clean-up loses no such trade of the buffer
\* it replaces.
C20_NoAppendedTradeLost ==
  [][ (script = "trade_exhaust2" /\ kline_pc = "assign" /\ kline_pc' = "idle")
        => \A i \in 1..Len(trade_buffer) :
             trade_buffer[i].T > kline_candle[1].end
               => Count(trade_buffer', trade_buffer[i])
                    = Count(trade_buffer, trade_buffer[i]) ]_vars

\* a/b >= n/d for rationals
RatAtLeast(x, y) == ~RatLess(x, y)

\* the entry conditions on the metrics before rounding
EntryHoldsUnrounded(color, agg_ratio, avg_bbo_imba) ==
  /\ color = "Green"
  /\ RatAtLeast(agg_ratio, Rat(35, 100))
  /\ RatAtLeast(avg_bbo_imba, Rat(35, 100))
  /\ (RatAtLeast(agg_ratio, Rat(55, 100))
      \/ RatAtLeast(avg_bbo_imba, Rat(55, 100)))

\* this step's candle reached one of the two entry checks of the detector
EntryChecked ==
  /\ CandleProcessed
  /\ NoCooldownAfterDecrement
  /\ \/ ha_green_streak' = 4
     \/ Candle.HA_color = "Green" /\ consolidation_watch_countdown > 0

\* C21: the entry decision is made on full-precision metrics: on every
\* candle that reaches an entry check, an alert fires exactly when the 0.35
\* and 0.55 thresholds hold for the unrounded agg_ratio and avg_bbo_imba of
\* the window; rounding affects the logged record only.
C21_DecisionOnUnroundedMetrics ==
  [][ EntryChecked =>
        (AlertsFired > 0
           <=> EntryHoldsUnrounded(Candle.HA_color,
                 agg_ratio_of(VolumeOf(relevant_trades', "Buy"),
                              VolumeOf(relevant_trades', "Sell")),
                 avg_bbo_imba_of(relevant_bbo_updates'))) ]_vars

\* the raw candle this step processed
RawCandle == candle_history'[Len(candle_history')]

\* C22: for every processed candle ha_close = (open+high+low+close)/4;
\* ha_open = (open+close)/2 exactly when no candle was processed before,
\* otherwise (last_ha_open + last_ha_close)/2 of the candle processed just
\* before; HA_color is Green iff ha_close > ha_open, a tie is Red; and
\* last_ha_open / last_ha_close take the new values on every processed candle.
C22_HaRecurrence ==
  [][ CandleProcessed =>
        LET ha_close == Rat(RawCandle.open + RawCandle.high + RawCandle.low
                              + RawCandle.close, 4)
            ha_open ==
              IF total_records = 0
              THEN Rat(RawCandle.open + RawCandle.close, 2)
              ELSE Rat(last_ha_open[1].n * last_ha_close[1].d
                         + last_ha_close[1].n * last_ha_open[1].d,
                       2 * last_ha_open[1].d * last_ha_close[1].d)
        IN  /\ (total_records = 0) <=> (last_ha_open = None)
            /\ last_ha_open' = Some(ha_open)
            /\ last_ha_close' = Some(ha_close)
            /\ Candle.HA_color =
                 IF ha_close.n * ha_open.d > ha_open.n * ha_close.d
                 THEN "Green" ELSE "Red" ]_vars

\* a candle after the first came out with ha_close = ha_open and was Red
C22_Witness ==
  /\ total_records >= 2
  /\ last_ha_open = last_ha_close
  /\ last_candle_data # None
  /\ last_candle_data[1].HA_color = "Red"
  /\ ha_green_streak = 0

Min(a, b) == IF a < b THEN a ELSE b

\* C23: after k processed candles cvd_history has length min(k, N), holds
\* the cumulative_volume_delta values of the most recent min(k, N) candles
\* in processing order, and its last element is the current
\* cumulative_volume_delta (N = cvd_zscore_period): every processed candle
\* puts its value at the tail, in front of it stand the most recent values
\* of the history before, and nothing else changes the history.
C23_HistoryIsRecentCvd ==
  [][ script = "trade_exhaust2" =>
        /\ Len(cvd_history) = Min(total_records, CvdPeriod)
        /\ AnyCandleProcessed =>
             LET kept == Len(cvd_history') - 1
             IN  /\ Len(cvd_history') = Min(total_records + 1, CvdPeriod)
                 /\ cvd_history'[Len(cvd_history')] = cumulative_volume_delta'
                 /\ \A i \in 1..kept :
                      cvd_history'[i] =
                        cvd_history[Len(cvd_history) - kept + i]
        /\ ~AnyCandleProcessed => cvd_history' = cvd_history ]_vars

\* a third candle has pushed the first value out of a history of two
\* different values, the newer of them the current running sum
C23_Witness ==
  /\ script = "trade_exhaust2"
  /\ total_records = CvdPeriod + 1
  /\ Len(cvd_history) = CvdPeriod
  /\ cvd_history[1] > cvd_history[CvdPeriod]
  /\ cvd_history[CvdPeriod] = cumulative_volume_delta
  /\ cumulative_volume_delta < 0 - 1

\* all values of a sequence are the same
AllEqual(seq) == \A i, j \in 1..Len(seq) : seq[i] = seq[j]

\* C24: cvd_zscore_ratio is 0 on the first processed candle (history length
\* below 2) and on every candle on which all values of cvd_history are
\* equal (zero variance), and no exception leaves the z-score step.
C24_ZscoreDegenerateIsZero ==
  [][ (script = "trade_exhaust2" /\ AnyCandleProcessed) =>
        LET zscore == cvd_output'[1].cvd_zscore_ratio
        IN  /\ zscore.raised = "none"
            /\ (total_records = 0 \/ Len(cvd_history') < 2
                  \/ AllEqual(cvd_history'))
                 => zscore.sign = 0 /\ zscore.square = Rat(0, 1) ]_vars

\* the second candle had no net volume: a full history of one repeated
\* value other than zero, and a z-score of 0
C24_Witness ==
  /\ script = "trade_exhaust2"
  /\ total_records >= 2
  /\ Len(cvd_history) = CvdPeriod
  /\ AllEqual(cvd_history)
  /\ cumulative_volume_delta # 0
  /\ cvd_output # None
  /\ cvd_output[1].cvd_zscore_ratio.raised = "none"
  /\ cvd_output[1].cvd_zscore_ratio.sign = 0

\* C25: in every detector state after a processed candle
\* 0 <= alert_cooldown <= 5 and 0 <= consolidation_watch_countdown <= 3, and
\* a pending watch (countdown > 0) implies alert_cooldown = 0 and
\* ha_green_streak + consolidation_watch_countdown = 7: a watch is pending
\* only at streak 4, 5 or 6.
C25_CounterRanges ==
  /\ alert_cooldown \in 0..5
  /\ consolidation_watch_countdown \in 0..3
  /\ consolidation_watch_countdown > 0
       => /\ alert_cooldown = 0
          /\ ha_green_streak + consolidation_watch_countdown = 7
          /\ ha_green_streak \in 4..6

\* two re-checks have failed: the watch started at streak 4 stands at 1 on
\* streak 6 and no alert has fired
C25_Witness ==
  /\ ha_green_streak = 6
  /\ consolidation_watch_countdown = 1
  /\ total_records = 6
  /\ strict_alerts + watch_alerts = 0
  /\ alert_cooldown = 0

\* C26: an alert fires only on a candle whose updated ha_green_streak is in
\* 4..7: a Strict Entry only at streak 4, a Consolidation-Watch Entry only
\* at streak 5, 6 or 7.  So once the streak has passed 4 with no watch
\* pending (the streak-4 candle was suppressed or the watch has expired) no
\* candle of the rest of the Green run fires an alert, whatever its metrics.
C26_AlertsOnlyAtStreakFourToSeven ==
  [][ CandleProcessed =>
        /\ strict_alerts' # strict_alerts => ha_green_streak' = 4
        /\ watch_alerts' # watch_alerts => ha_green_streak' \in 5..7
        /\ (ha_green_streak' >= 5 /\ consolidation_watch_countdown = 0)
             => AlertsFired = 0 ]_vars

\* the eighth Green candle in a row met the entry conditions after the
\* watch had expired, and no alert fired
C26_Witness ==
  /\ ha_green_streak = 8
  /\ last_candle_data # None
  /\ EntryHolds(last_candle_data[1])
  /\ strict_alerts + watch_alerts = 0
  /\ alert_cooldown = 0
  /\ consolidation_watch_countdown = 0

\* C27: once a consolidation watch has started (countdown set to 3) it ends
\* within the next 3 processed candles: a watch starts at 3, only out of no
\* watch, and every processed candle that finds a watch pending either ends
\* it (an alert, a Red candle, or the last failed re-check) or takes exactly
\* one off the countdown.
C27_WatchEndsWithinThree ==
  [][ CandleProcessed =>
        /\ consolidation_watch_countdown' > consolidation_watch_countdown
             => /\ consolidation_watch_countdown = 0
                /\ consolidation_watch_countdown' = CONSOLIDATION_WATCH_PERIOD
        /\ consolidation_watch_countdown > 0
             => \/ /\ consolidation_watch_countdown' = 0
                   /\ \/ AlertsFired = 1
                      \/ Candle.HA_color = "Red"
                      \/ consolidation_watch_countdown = 1
                \/ /\ consolidation_watch_countdown'
                        = consolidation_watch_countdown - 1
                   /\ AlertsFired = 0
                   /\ Candle.HA_color = "Green" ]_vars

\* the watch started on the fourth Green candle has expired on the seventh
\* after three failed re-checks
C27_Witness ==
  /\ ha_green_streak = 7
  /\ total_records = 7
  /\ consolidation_watch_countdown = 0
  /\ strict_alerts + watch_alerts = 0
  /\ last_candle_data # None
  /\ ~EntryHolds(last_candle_data[1])

\* C28: for a time-ordered deque process_and_report processes exactly the
\* buffered updates with period_start_ts <= time < period_end_ts, removes
\* every update with time < period_end_ts (the older ones unprocessed) and
\* leaves every update with time >= period_end_ts, atomically with respect
\* to the appends of handle_bbo_message: while it holds the lock the deque
\* only loses its head, when it lets go the deque found has been split
\* exactly, and any other change of the deque is one update at its tail.
C28_StatsDrainIsExactAndAtomic ==
  [][ script = "order_1minStats" =>
        LET InPeriod(u) == /\ report_period[1].start <= u.time
                           /\ u.time < report_period[1].end
            Newer(u) == u.time >= report_period[1].end
        IN  /\ \A i \in 1..(Len(bbo_updates) - 1) :
                 bbo_updates[i].time <= bbo_updates[i + 1].time
            /\ IF report_pc = "drain"
               THEN \/ bbo_updates' = bbo_updates
                    \/ bbo_updates' = Tail(bbo_updates)
               ELSE \/ bbo_updates' = bbo_updates
                    \/ Appended(bbo_updates', bbo_updates)
            /\ (report_pc = "drain" /\ report_pc' = "idle")
                 => /\ ExactlyThose(updates_to_process', drained_from,
                                    InPeriod)
                    /\ ExactlyThose(bbo_updates', drained_from, Newer) ]_vars

\* a drain has ended that found an update older than the period, one of the
\* period and one newer, while a further update was waiting for the lock
C28_Witness ==
  /\ script = "order_1minStats"
  /\ report_pc = "idle"
  /\ report_period # None
  /\ Len(drained_from) = 3
  /\ Len(updates_to_process) = 1
  /\ Len(bbo_updates) = 1
  /\ drained_from[1].time < report_period[1].start
  /\ stats_pending # None

\* the starts of which process_queue_data has read a candle
SeenStarts == {s \in Starts : latest_candle[s] # None}

\* C29: after process_queue_data has consumed any sequence of kline events
\* historical_df holds exactly one row per distinct candle start seen so
\* far, with the data received last for that start, in ascending order of
\* the starts: no candle is dropped.
C29_OneRowPerStart ==
  script = "heinki_ashi" =>
    /\ {historical_df[i].timestamp : i \in 1..Len(historical_df)}
         = SeenStarts
    /\ Len(historical_df) = Cardinality(SeenStarts)
    /\ \A i \in 1..Len(historical_df) :
         Some(columns_of(historical_df[i]))
           = latest_candle[historical_df[i].timestamp]
    /\ \A i \in 1..(Len(historical_df) - 1) :
         historical_df[i].timestamp < historical_df[i + 1].timestamp

\* C30: the batch transform calculate_heikin_ashi and the recurrence of
\* OrderFlowTracker.process_candle_data agree: after each candle of a
\* sequence given one at a time to a fresh tracker, the tracker holds the HA
\* open and HA close of that candle's row in the batch result computed over
\* the whole sequence.
C30_BatchAgreesWithTracker ==
  (ha_full_df # None /\ candle_history # << >>)
    => LET row == ha_full_df[1][Len(candle_history)]
       IN  /\ last_ha_open = Some(row.open)
           /\ last_ha_close = Some(row.close)

\* the tracker has been given all candles of a sequence of four that has
\* all three shapes, the flat one first, and the batch result is there
C30_Witness ==
  /\ ha_full_df # None
  /\ Len(historical_df) = 4
  /\ Len(candle_history) = 4
  /\ candle_history[1] = Flat
  /\ Rising \in Range(candle_history)
  /\ Falling \in Range(candle_history)

====
